---- MODULE Spec2Model ----
(***************************************************************************)
(* Attribute tables of vtk-override: the named-array tables of a dataset   *)
(* (fields.py), the numpy views that alias their columns (ndarray.py and   *)
(* the dataset_adapter views returned by FieldDataBase.get_array) and the  *)
(* active-role registry of the point/cell tables.                          *)
(***************************************************************************)
EXTENDS Integers, Sequences, FiniteSets, TLC

\* ------------------------------------------------------------------ bounds
\* number of points of the modelled dataset
NPoints == 2
\* number of cells of the modelled dataset
NCells == 1
\* largest leading dimension of an input array
MaxRows == 3
\* number of arrays a caller keeps a reference to at the same time
MaxViews == 2
\* number of leaf blocks of the composite dataset
NBlocks == 2
\* longest list of known keys of the union (set_array appends without limit)
MaxKeys == 2
\* number of composite arrays a caller keeps a reference to at the same time
MaxHeld == 1
\* number of override calls and instance creations that are recorded
MaxEvents == 4
\* longest coordinate array of the rectilinear grid
MaxCoords == 2

\* ----------------------------------------------------------- value domains
None == "None"
Names == {"x", "y"}
Vals == {0, 7}
Scopes == {"POINT", "CELL", "FIELD"}
RoleKinds == {"scalars", "vectors", "normals", "tcoords"}

Prod(s) == IF Len(s) = 0 THEN 1
           ELSE IF Len(s) = 1 THEN s[1]
           ELSE IF Len(s) = 2 THEN s[1] * s[2]
           ELSE s[1] * s[2] * s[3]

\* The elements 0, 1, 2, ... shifted by b: arrays whose elements differ.
Ramp(n, b) == [k \in 1..n |-> b + k - 1]
Const(n, v) == [k \in 1..n |-> v]

\* A raw value handed to set_array.  kind: "NoneArray" (dsa.NoneArray),
\* "scalar" (a Python number), "seq" (a Python list or range), "ndarray".
\* flat holds the elements in logical (row-major index) order; order is the
\* memory layout of a rank-3 ndarray: "C" (C-contiguous) or "T" (the view
\* a.transpose(0, 2, 1) of a C-contiguous array).
Raw(k, s, f, o) == [kind |-> k, shape |-> s, flat |-> f, order |-> o]
NoneArray == Raw("NoneArray", <<>>, <<>>, "C")
PyScalar(v) == Raw("scalar", <<>>, <<v>>, "C")
PySeq(f) == Raw("seq", <<Len(f)>>, f, "C")
NdArray(s, f) == Raw("ndarray", s, f, "C")
\* The Python value None handed to set_array as the data.
PyNone == Raw("pynone", <<>>, <<>>, "C")

MatShapes == {<<3, 2>>, <<2, 3>>, <<3, 3>>}

RawScalars == {PyScalar(v) : v \in Vals} \cup {NdArray(<<>>, <<v>>) : v \in Vals}
RawSeqs == {PySeq(<<7>>), PySeq(Ramp(NPoints, 0))}
RawVectors ==
    {NdArray(<<n>>, Const(n, v)) : n \in 1..MaxRows, v \in Vals}
        \cup {NdArray(<<n>>, Ramp(n, 0)) : n \in 1..MaxRows}
RawTables ==
    {NdArray(<<n, c>>, Ramp(n * c, 0)) : n \in 1..MaxRows, c \in 2..3}
RawMatrices ==
    {Raw("ndarray", <<n, m[1], m[2]>>, Ramp(n * m[1] * m[2], 0), o) :
        n \in {NCells, NPoints}, m \in MatShapes, o \in {"C", "T"}}
RawValues == {NoneArray} \cup RawScalars \cup RawSeqs \cup RawVectors
                \cup RawTables \cup RawMatrices

\* ------------------------------------------------- numpy array operations
\* ndarray.strides / itemsize of a rank-3 array of shape <<n, p, q>>.
Strides(a) == IF a.order = "C"
              THEN <<a.shape[2] * a.shape[3], a.shape[3], 1>>
              ELSE <<a.shape[2] * a.shape[3], 1, a.shape[2]>>

\* ndarray.flags.contiguous
Contiguous(a) == a.order = "C"

\* a.transpose(0, 2, 1): element [i][j][k] of the result is a[i][k][j].
Transpose021(a) ==
    LET n == a.shape[1]
        p == a.shape[2]
        q == a.shape[3]
    IN [a EXCEPT !.shape = <<n, q, p>>,
                 !.flat = [t \in 1..(n * p * q) |->
                     LET i == (t - 1) \div (p * q)
                         j == ((t - 1) % (p * q)) \div p
                         k == (t - 1) % p
                     IN a.flat[i * p * q + k * q + j + 1]],
                 !.order = IF a.order = "C" THEN "T" ELSE "C"]

\* numpy.ascontiguousarray: same elements, C layout.
AsContiguous(a) == [a EXCEPT !.order = "C"]

\* ------------------------------------------------ FieldDataBase.set_array
\* The length the table asks of a column; 0 stands for the IndexError of
\* shape[0] on a rank-0 ndarray.
ArrLength(assoc, raw) ==
    IF assoc = "POINT" THEN NPoints
    ELSE IF assoc = "CELL" THEN NCells
    ELSE IF raw.kind # "ndarray" THEN 1
    ELSE IF Len(raw.shape) = 0 THEN 0
    ELSE raw.shape[1]

\* A faulty variant of the fixup: an ndarray of another leading dimension is
\* kept as it is instead of being repeated on each row.
FixupNoBroadcast(raw, arrLength) ==
    IF raw.kind # "ndarray" \/ Len(raw.shape) = 0
    THEN [shape |-> <<arrLength>>,
          flat |-> Const(arrLength, IF raw.kind = "seq" THEN raw.flat
                                    ELSE IF raw.kind = "pynone" THEN None
                                    ELSE raw.flat[1]),
          order |-> "C",
          dtype |-> IF raw.kind \in {"seq", "pynone"} THEN "object" ELSE "int"]
    ELSE [shape |-> raw.shape, flat |-> raw.flat, order |-> raw.order, dtype |-> "int"]

\* "Fixup input array length": a non-ndarray or rank-0 input fills an array
\* of arrLength elements whose dtype is the input's type (object for a list
\* or range); an ndarray of another leading dimension is flattened and
\* repeated on each of the arrLength rows.
Fixup(raw, arrLength) ==
    IF raw.kind # "ndarray" \/ Len(raw.shape) = 0
    THEN [shape |-> <<arrLength>>,
          flat |-> Const(arrLength, IF raw.kind = "seq" THEN raw.flat
                                    ELSE IF raw.kind = "pynone" THEN None
                                    ELSE raw.flat[1]),
          order |-> "C",
          dtype |-> IF raw.kind \in {"seq", "pynone"} THEN "object" ELSE "int"]
    ELSE IF raw.shape[1] # arrLength
    THEN LET components == Prod(raw.shape)
         IN [shape |-> <<arrLength, components>>,
             flat |-> [t \in 1..(arrLength * components) |->
                          raw.flat[((t - 1) % components) + 1]],
             order |-> "C",
             dtype |-> "int"]
    ELSE [shape |-> raw.shape, flat |-> raw.flat, order |-> raw.order, dtype |-> "int"]

\* "Array of matrices": a rank-3 array is transposed when its strides are
\* (_, 3, 1), or (_, 1, 3) and it is not contiguous; copied when still not
\* contiguous; then reshaped to (shape[0], shape[1] * shape[2]) with the
\* shape taken before the transposition.
MatrixFixup(a) ==
    IF Len(a.shape) # 3 THEN a
    ELSE LET s == Strides(a)
             t == IF (s[2] = 3 /\ s[3] = 1) \/ (s[2] = 1 /\ s[3] = 3 /\ ~Contiguous(a))
                  THEN Transpose021(a) ELSE a
             c == IF ~Contiguous(t) THEN AsContiguous(t) ELSE t
         IN [c EXCEPT !.shape = <<a.shape[1], a.shape[2] * a.shape[3]>>]

\* dsa.numpyTovtkDataArray: the tuples of the new vtk array, one per row.
NumComponents(a) == IF Len(a.shape) = 2 THEN a.shape[2] ELSE 1
Tuples(a) ==
    LET c == NumComponents(a)
    IN [i \in 1..a.shape[1] |-> [j \in 1..c |-> a.flat[(i - 1) * c + j]]]

\* What set_array does with a raw value on a table of the given association:
\* "noop" for NoneArray, an error, or the vtk array it adds.
Normalize(assoc, raw) ==
    IF raw.kind = "NoneArray" THEN [outcome |-> "noop", ncomp |-> 0, rows |-> <<>>]
    ELSE IF ArrLength(assoc, raw) = 0
    THEN [outcome |-> "IndexError", ncomp |-> 0, rows |-> <<>>]
    ELSE LET a == MatrixFixup(Fixup(raw, ArrLength(assoc, raw)))
         IN IF a.dtype = "object"
            THEN [outcome |-> "TypeError", ncomp |-> 0, rows |-> <<>>]
            ELSE [outcome |-> "ok", ncomp |-> NumComponents(a), rows |-> Tuples(a)]

\* -------------------------------------------------------------------- state
VARIABLES
    alive,   \* TRUE while the dataset (the entity owning the tables) exists
    tab,     \* tab[scope]: the table's columns in insertion order, <<[name, arr]>>
    heap,    \* heap[id]: a vtk array or a detached numpy buffer, or Free
    views,   \* the arrays the caller holds references to
    roles,   \* roles[scope][kind]: the name registered for the role, or None
    annot,   \* annot[kind]: the point-table names the bool / complex accessor returns
    copies,  \* copies[how]: the point table of the dataset's deep / shallow copy
    union,   \* the composite dataset's blocks and the union over their tables
    registry,\* the overrides installed on native types, the instances created
    grid,    \* a rectilinear grid: its coordinate arrays and its dimensions
    last     \* the last call: operation, arguments, outcome, returned value

vars == <<alive, tab, heap, views, roles, annot, copies, union, registry, grid, last>>

\* object slots: every column of every table and of the deep copy, every
\* held view, one spare
MaxObjs == 4 * Cardinality(Names) + MaxViews + 1

Free == [live |-> FALSE, vtk |-> FALSE, ncomp |-> 0, rows |-> <<>>, dtype |-> "none"]
NoValue == [shape |-> <<>>, flat |-> <<>>]
NoRaw == Raw("none", <<>>, <<>>, "C")

\* The record of a call: its operation and arguments, its outcome ("ok", a
\* sentinel or the exception raised), the value it returned, the Modified()
\* calls it made, the held array it acted on and the row it wrote, the role
\* it addressed and that role's registration before the call, the list
\* keys() or values() returned, the number len() returned, the element type
\* of the returned array, the message of the exception.
Call(op, scope, name, outcome) ==
    [op |-> op, scope |-> scope, name |-> name, outcome |-> outcome,
     raw |-> NoRaw, ret |-> NoValue, modlog |-> <<>>, view |-> 0, row |-> 0,
     kind |-> None, prior |-> None, list |-> <<>>, n |-> 0, dtype |-> "none",
     msg |-> ""]

NoRoles == [k \in RoleKinds |-> None]
NoAnnot == [k \in {"bool", "complex"} |-> {}]
NoCopy == [made |-> FALSE, cols |-> <<>>, roles |-> NoRoles, annot |-> NoAnnot]

\* A slot of a composite array: a block's array ("VTKArray"), the sentinel
\* dsa.NoneArray, or Python's None.
Slot(kind, ncomp, rows) == [kind |-> kind, ncomp |-> ncomp, rows |-> rows]
NoneSlot == Slot("None", 0, <<>>)
NoneArraySlot == Slot("NoneArray", 0, <<>>)

\* A dsa.VTKCompositeDataArray the caller holds: built over the dataset for
\* a name (Arrays filled on first access) or built by the caller from a
\* list of arrays.
NotHeld == [live |-> FALSE, Name |-> None, Initialized |-> FALSE, Arrays |-> <<>>]
\* An entry of CompositeDataSetAttributes.Arrays: no entry, or a weak
\* reference to a held composite array, or (ref 0) to a collected one.
NoEntry == [has |-> FALSE, ref |-> 0]
Entry(id) == [has |-> TRUE, ref |-> id]

\* The composite dataset's leaf blocks (DataSet[b]: the block's table, a
\* sequence of named columns), and the union over them once constructed.
NoUnion ==
    [built |-> FALSE,
     DataSet |-> [b \in 1..NBlocks |-> <<>>],
     ArrayNames |-> <<>>,
     Arrays |-> [n \in Names |-> NoEntry],
     held |-> [i \in 1..MaxHeld |-> NotHeld]]

\* The types override() is called on: a native type, which has the override
\* method, and a class that has none.
Targets == {"vtkPolyData", "PlainClass"}
HasOverride(T) == T = "vtkPolyData"
\* The subclasses of the native type that are installed.
Subclasses == {"Foo", "Bar"}

\* override[T]: the subclass installed on T, or None; events: the override
\* calls and the instances created, in order.
NoRegistry == [override |-> [T \in Targets |-> None], events |-> <<>>]

\* A coordinate argument: a list or an ndarray of numbers, a list of
\* strings, or None (the argument left out).
Coord(kind, n) == [kind |-> kind, vals |-> [i \in 1..n |-> i - 1]]
NoCoord == Coord("None", 0)
CoordArrays ==
    {Coord(k, n) : k \in {"list", "ndarray"}, n \in 1..MaxCoords} \cup {Coord("strlist", 1)}
Axes == {"x", "y", "z"}

\* A vtkRectilinearGrid as its constructor leaves it: one coordinate 0.0
\* along each axis, the dimensions (0, 0, 0).  given: the coordinates and
\* the dimensions come from a construction with a coordinate array, the
\* grid's own or that of the grid it was overwritten from.
FreshGrid == [made |-> TRUE, given |-> FALSE,
              x |-> <<0>>, y |-> <<0>>, z |-> <<0>>, dimensions |-> <<0, 0, 0>>]
NoGrid == [FreshGrid EXCEPT !.made = FALSE]

\* ----------------------------------------------------------- table helpers
Keys(cols) == [i \in 1..Len(cols) |-> cols[i].name]
HasName(cols, name) == \E i \in 1..Len(cols) : cols[i].name = name
IndexOf(cols, name) == CHOOSE i \in 1..Len(cols) : cols[i].name = name
ArrOf(cols, name) == cols[IndexOf(cols, name)].arr
Without(cols, name) ==
    SelectSeq(cols, LAMBDA c : c.name # name)

\* A faulty variant of AddArray: the array is always appended.
AddArrayAppend(cols, name, id) == Append(cols, [name |-> name, arr |-> id])

\* vtkFieldData.AddArray(arr): an array of the same name is replaced in
\* place, a new name is appended.
AddArray(cols, name, id) ==
    IF HasName(cols, name)
    THEN [cols EXCEPT ![IndexOf(cols, name)] = [name |-> name, arr |-> id]]
    ELSE Append(cols, [name |-> name, arr |-> id])

\* ------------------------------------------------------------ object heap
\* Objects live while something refers to them (reference counting): a
\* table's column, or an array the caller holds.  Object identities carry no
\* meaning, so the live objects are kept numbered in the order in which the
\* tables and then the held arrays refer to them.
RECURSIVE Dedup(_)
Dedup(q) ==
    IF q = <<>> THEN <<>>
    ELSE LET d == Dedup(SubSeq(q, 1, Len(q) - 1))
         IN IF \E k \in 1..Len(d) : d[k] = q[Len(q)] THEN d ELSE Append(d, q[Len(q)])

ColumnRefs(cols) == [i \in 1..Len(cols) |-> cols[i].arr]

CopyKinds == {"deep", "shallow"}

Referenced(t, v, c) ==
    Dedup(ColumnRefs(t["POINT"]) \o ColumnRefs(t["CELL"]) \o ColumnRefs(t["FIELD"])
            \o ColumnRefs(c["deep"].cols) \o ColumnRefs(c["shallow"].cols)
            \o [i \in 1..Len(v) |-> v[i].buf]
            \o SelectSeq([i \in 1..Len(v) |-> v[i].VTKObject], LAMBDA id : id # 0))

Pos(o, id) == CHOOSE k \in 1..Len(o) : o[k] = id

Renumbered(o, cols) == [i \in 1..Len(cols) |-> [name |-> cols[i].name, arr |-> Pos(o, cols[i].arr)]]

Collect(h, t, v, c) ==
    LET o == Referenced(t, v, c)
    IN [heap |-> [i \in 1..MaxObjs |-> IF i <= Len(o) THEN h[o[i]] ELSE Free],
        tab |-> [s \in Scopes |-> Renumbered(o, t[s])],
        views |-> [i \in 1..Len(v) |->
                    [v[i] EXCEPT !.buf = Pos(o, @),
                                 !.VTKObject = IF @ = 0 THEN 0 ELSE Pos(o, @)]],
        copies |-> [k \in CopyKinds |-> [c[k] EXCEPT !.cols = Renumbered(o, @)]]]

\* The state after an operation left the objects h, the tables t, the held
\* arrays v and the copies c.
SettleAll(h, t, v, c) ==
    LET n == Collect(h, t, v, c)
    IN heap' = n.heap /\ tab' = n.tab /\ views' = n.views /\ copies' = n.copies

Settle(h, t, v) == SettleAll(h, t, v, copies)

FreeId(h) == CHOOSE i \in 1..MaxObjs : ~h[i].live /\ \A j \in 1..(i - 1) : h[j].live

VtkArray(ncomp, rows) ==
    [live |-> TRUE, vtk |-> TRUE, ncomp |-> ncomp, rows |-> rows, dtype |-> "int"]
NumpyBuffer(ncomp, rows) ==
    [live |-> TRUE, vtk |-> FALSE, ncomp |-> ncomp, rows |-> rows, dtype |-> "int"]

\* ------------------------------------------------------------------ views
\* An array held by the caller: the buffer it indexes (buf), the rows of the
\* buffer it covers (sel), and its provenance.  dataset is None, a weak
\* reference to nothing ("WeakNull") or a weak reference to the dataset.
View(cls, buf, sel, obj, ds, assoc, tensor) ==
    [cls |-> cls, buf |-> buf, sel |-> sel, VTKObject |-> obj, dataset |-> ds,
     association |-> assoc, tensor |-> tensor]

AllRows(h, id) == [k \in 1..Len(h[id].rows) |-> k]

\* The value read through a view, as shape and elements in index order.  A
\* tensor view is the (n, 3, 3) view of a 9-component array, transposed.
ViewValue(h, w) ==
    LET n == Len(w.sel)
        c == h[w.buf].ncomp
        row(k) == h[w.buf].rows[w.sel[k]]
    IN IF w.tensor
       THEN [shape |-> <<n, 3, 3>>,
             flat |-> [t \in 1..(n * 9) |->
                 row(((t - 1) \div 9) + 1)[((t - 1) % 3) * 3 + (((t - 1) % 9) \div 3) + 1]]]
       ELSE [shape |-> IF c = 1 THEN <<n>> ELSE <<n, c>>,
             flat |-> [t \in 1..(n * c) |-> row(((t - 1) \div c) + 1)[((t - 1) % c) + 1]]]

\* numpy.shares_memory(a, b): same buffer and a common element.
SharesMemory(a, b) ==
    /\ a.buf = b.buf
    /\ \E i \in 1..Len(a.sel), j \in 1..Len(b.sel) : a.sel[i] = b.sel[j]

\* vtk_ndarray.__array_finalize__(self, obj)
ArrayFinalize(self, obj) ==
    IF SharesMemory(self, obj)
    THEN [self EXCEPT !.dataset = obj.dataset,
                      !.association = obj.association,
                      !.VTKObject = obj.VTKObject]
    ELSE [self EXCEPT !.dataset = None, !.association = "NONE", !.VTKObject = 0]

\* dataset.Get() of a view's weak reference: the dataset, if it still exists.
DatasetGet(w, isAlive) == w.dataset = "WeakDS" /\ isAlive

\* vtkCommonCore.buffer_shared(a, b), which dsa.VTKArray.__array_finalize__
\* asks: the two arrays start at the same address and have the same size.
BufferShared(a, b) == a.buf = b.buf /\ a.sel = b.sel

\* dsa.VTKArray.__array_finalize__(self, obj), which finalizes every array
\* derived from an array get_array returned: the vtk array is taken over
\* when the buffer is shared; Association and DataSet are taken over
\* whether or not memory is shared (DataSet reads the parent's weak
\* reference and is None once the dataset is gone).
VTKArrayFinalize(self, obj, isAlive) ==
    [self EXCEPT !.VTKObject = IF BufferShared(self, obj) THEN obj.VTKObject ELSE 0,
                 !.association = obj.association,
                 !.dataset = IF DatasetGet(obj, isAlive) THEN "WeakDS" ELSE None]

\* The Modified() calls of vtk_ndarray.__setitem__, in call order.
ModifiedCalls(w, isAlive) ==
    (IF w.VTKObject # 0 THEN <<[obj |-> "array", id |-> w.VTKObject]>> ELSE <<>>)
        \o (IF w.dataset # None /\ DatasetGet(w, isAlive)
            THEN <<[obj |-> "dataset", id |-> 0]>> ELSE <<>>)

\* ---------------------------------------------------------- active roles

\* The component counts a role accepts.
RoleComponents(kind) ==
    IF kind \in {"vectors", "normals"} THEN {3}
    ELSE IF kind = "tcoords" THEN {2, 3}
    ELSE 1..9

\* The roles left after a column is removed: those that named it are cleared.
RolesWithout(r, name) == [k \in RoleKinds |-> IF r[k] = name THEN None ELSE r[k]]

\* ------------------------------------------------------------- operations
Init ==
    /\ alive = TRUE
    /\ tab = [s \in Scopes |-> <<>>]
    /\ heap = [i \in 1..MaxObjs |-> Free]
    /\ views = <<>>
    /\ roles = [s \in Scopes |-> NoRoles]
    /\ annot = NoAnnot
    /\ copies = [k \in CopyKinds |-> NoCopy]
    /\ union = NoUnion
    /\ registry = NoRegistry
    /\ grid = NoGrid
    /\ last = Call("init", None, None, "ok")

\* A name that is not a string: the list ["foo"].
ListName == "list(foo)"

\* The message of the TypeError vtkAbstractArray.SetName raises for an
\* argument that is neither a string nor None.
SetNameMessage == "SetName argument 1: string or None required"

\* The message test_set_array_catch matches (there with name between
\* backquotes).
NameMustBeString == "name must be a string"

\* A faulty variant of set_array: the array is added before it is named, so
\* it stays in the table when naming it fails.
SetArrayAddsFirst(scope, name, raw) ==
    /\ alive
    /\ LET r == Normalize(scope, raw)
           id == FreeId(heap)
       IN IF r.outcome = "ok"
          THEN /\ Settle([heap EXCEPT ![id] = VtkArray(r.ncomp, r.rows)],
                         [tab EXCEPT ![scope] = AddArray(@, name, id)], views)
               /\ last' = IF name = ListName
                          THEN [Call("set", scope, name, "TypeError") EXCEPT
                                    !.raw = raw, !.msg = SetNameMessage]
                          ELSE [Call("set", scope, name, "ok") EXCEPT !.raw = raw]
          ELSE /\ UNCHANGED <<tab, heap, views, copies>>
               /\ last' = [Call("set", scope, name, r.outcome) EXCEPT !.raw = raw]
    /\ UNCHANGED <<union, registry, grid, alive, roles, annot>>

\* FieldDataBase.set_array(name, narray), also table[name] = narray.  The
\* name is not examined before dsa.numpyTovtkDataArray converts the array
\* and then names it.
SetArray(scope, name, raw) ==
    /\ alive
    /\ LET r == Normalize(scope, raw)
           id == FreeId(heap)
       IN IF r.outcome = "ok" /\ name # ListName
          THEN /\ Settle([heap EXCEPT ![id] = VtkArray(r.ncomp, r.rows)],
                         [tab EXCEPT ![scope] = AddArray(@, name, id)], views)
               /\ last' = [Call("set", scope, name, "ok") EXCEPT !.raw = raw]
          ELSE /\ UNCHANGED <<tab, heap, views, copies>>
               /\ last' = IF r.outcome = "ok"
                          THEN [Call("set", scope, name, "TypeError") EXCEPT
                                    !.raw = raw, !.msg = SetNameMessage]
                          ELSE [Call("set", scope, name, r.outcome) EXCEPT !.raw = raw]
    /\ UNCHANGED <<union, registry, grid, alive, roles, annot>>

\* The view FieldDataBase.get_array wraps around a column's vtk array.
ColumnView(scope, id) ==
    View("VTKArray", id, AllRows(heap, id), id, "WeakDS", scope, heap[id].ncomp = 9)

\* The value table.get_array(name) returns for a name of the table.
GetValue(scope, name) == ViewValue(heap, ColumnView(scope, ArrOf(tab[scope], name)))

\* The element type a read of a point-table column reports: bool for a name
\* flagged bool, the complex type of twice the float width for a name flagged
\* complex, else the type of the stored column.
ReadType(name) ==
    LET d == heap[ArrOf(tab["POINT"], name)].dtype
    IN IF name \in annot["bool"] THEN "bool"
       ELSE IF name \in annot["complex"]
       THEN (IF d = "float32" THEN "complex64" ELSE "complex128")
       ELSE d

\* The value a read of a point-table column returns: the stored 0/1 as
\* booleans for a name flagged bool, the stored (real, imaginary) pairs as
\* one complex element per row for a name flagged complex, else the stored
\* value.
ReadValue(name) ==
    LET col == heap[ArrOf(tab["POINT"], name)]
        n == Len(col.rows)
    IN IF name \in annot["bool"]
       THEN [shape |-> <<n>>, flat |-> [i \in 1..n |-> col.rows[i][1] = 1]]
       ELSE IF name \in annot["complex"]
       THEN [shape |-> <<n>>, flat |-> [i \in 1..n |-> col.rows[i]]]
       ELSE GetValue("POINT", name)

\* The value a read of a table's column returns, and its element type.
Read(scope, name) == IF scope = "POINT" THEN ReadValue(name) ELSE GetValue(scope, name)
ReadTypeOf(scope, name) ==
    IF scope = "POINT" THEN ReadType(name) ELSE heap[ArrOf(tab[scope], name)].dtype

\* FieldDataBase.get_array(name), also table[name]; keep: the caller keeps
\* the returned view.
GetArray(scope, name, keep) ==
    /\ alive
    /\ keep => Len(views) < MaxViews /\ HasName(tab[scope], name)
    /\ IF HasName(tab[scope], name)
       THEN /\ last' = [Call("get", scope, name, "ok") EXCEPT
                            !.ret = GetValue(scope, name),
                            !.view = IF keep THEN Len(views) + 1 ELSE 0]
            /\ views' = IF keep
                        THEN Append(views, ColumnView(scope, ArrOf(tab[scope], name)))
                        ELSE views
       ELSE /\ last' = Call("get", scope, name, "NoneArray")
            /\ UNCHANGED views
    /\ UNCHANGED <<union, registry, grid, alive, tab, heap, roles, annot, copies>>

\* ------------------------------------------------ element types (point table)
\* A numpy array of element type d.  A bool array's elements are booleans, a
\* complex array's elements are (real, imaginary) pairs.
TypedArray(d, s, f) == [kind |-> "ndarray", shape |-> s, flat |-> f, order |-> "C", dtype |-> d]

ComplexTypes == {"complex64", "complex128"}

\* dsa.numpyTovtkDataArray on an array of element type d: numpy_to_vtk
\* asserts that the array is not complex and finds no vtk type for bool and
\* string arrays.
NumpyToVtkOutcome(d) ==
    IF d \in ComplexTypes THEN "AssertionError"
    ELSE IF d \in {"bool", "str"} THEN "TypeError"
    ELSE "ok"

\* FieldDataBase.set_array(name, narray) on the point table for a numpy
\* array of a given element type with one row per point: the array goes to
\* dsa.numpyTovtkDataArray as it is; the flags are not written.
SetArrayOfType(name, raw) ==
    /\ alive
    /\ raw.shape[1] = NPoints /\ Len(raw.shape) <= 2
    /\ IF NumpyToVtkOutcome(raw.dtype) = "ok"
       THEN LET id == FreeId(heap)
                col == [live |-> TRUE, vtk |-> TRUE, ncomp |-> NumComponents(raw),
                        rows |-> Tuples(raw), dtype |-> raw.dtype]
            IN /\ Settle([heap EXCEPT ![id] = col],
                         [tab EXCEPT !["POINT"] = AddArray(@, name, id)], views)
               /\ last' = [Call("set", "POINT", name, "ok") EXCEPT
                              !.raw = raw, !.dtype = raw.dtype]
       ELSE /\ UNCHANGED <<tab, heap, views, copies>>
            /\ last' = [Call("set", "POINT", name, NumpyToVtkOutcome(raw.dtype)) EXCEPT
                           !.raw = raw, !.dtype = raw.dtype]
    /\ UNCHANGED <<union, registry, grid, alive, roles, annot>>

\* FieldDataBase.get_array(name) on the point table with the element type
\* of the returned array, which is the vtk array's.
GetArrayOfType(name) ==
    /\ alive
    /\ last' = IF HasName(tab["POINT"], name)
               THEN [Call("get", "POINT", name, "ok") EXCEPT
                        !.ret = GetValue("POINT", name),
                        !.dtype = heap[ArrOf(tab["POINT"], name)].dtype]
               ELSE Call("get", "POINT", name, "NoneArray")
    /\ UNCHANGED <<union, registry, grid, alive, tab, heap, views, roles, annot, copies>>

\* vtk_ndarray(vtkarray, dataset, association) on a column's vtk array;
\* withDataset: the dataset argument is the dataset, not None.
NewNdarray(scope, name, withDataset) ==
    /\ alive
    /\ Len(views) < MaxViews
    /\ HasName(tab[scope], name)
    /\ LET id == ArrOf(tab[scope], name)
           w == View("vtk_ndarray", id, AllRows(heap, id), id,
                     IF withDataset THEN "WeakDS" ELSE "WeakNull", scope, FALSE)
       IN /\ views' = Append(views, w)
          /\ last' = [Call("new", scope, name, "ok") EXCEPT
                          !.ret = ViewValue(heap, w), !.view = Len(views) + 1]
    /\ UNCHANGED <<union, registry, grid, alive, tab, heap, roles, annot, copies>>

\* v[a:b] on a held array: a view of rows a+1..b of v, of v's class
\* (vtk_ndarray, or the dsa.VTKArray get_array returns) and finalized by it.
Slice(i, a, b) ==
    /\ Len(views) < MaxViews
    /\ i \in 1..Len(views)
    /\ a \in 0..Len(views[i].sel) /\ b \in a..Len(views[i].sel)
    /\ LET p == views[i]
           new == View(p.cls, p.buf, SubSeq(p.sel, a + 1, b), 0, None, "NONE", p.tensor)
           w == IF p.cls = "vtk_ndarray" THEN ArrayFinalize(new, p)
                ELSE VTKArrayFinalize(new, p, alive)
       IN /\ views' = Append(views, w)
          /\ last' = [Call("slice", None, None, "ok") EXCEPT
                          !.ret = ViewValue(heap, w), !.view = i]
    /\ UNCHANGED <<union, registry, grid, alive, tab, heap, roles, annot, copies>>

\* v[[k, ...]] on a held array (index array ks): a new array of v's class
\* holding a copy of the selected rows, finalized by its class.
Fancy(i, ks) ==
    /\ Len(views) < MaxViews
    /\ i \in 1..Len(views)
    /\ \A j \in 1..Len(ks) : ks[j] \in 1..Len(views[i].sel)
    /\ LET p == views[i]
           id == FreeId(heap)
           rows == [j \in 1..Len(ks) |-> heap[p.buf].rows[p.sel[ks[j]]]]
           new == View(p.cls, id, [j \in 1..Len(ks) |-> j], 0, None, "NONE", p.tensor)
           w == IF p.cls = "vtk_ndarray" THEN ArrayFinalize(new, p)
                ELSE VTKArrayFinalize(new, p, alive)
       IN /\ Settle([heap EXCEPT ![id] = NumpyBuffer(heap[p.buf].ncomp, rows)],
                    tab, Append(views, w))
          /\ last' = [Call("fancy", None, None, "ok") EXCEPT
                          !.ret = ViewValue(heap, [p EXCEPT !.sel =
                                       [j \in 1..Len(ks) |-> p.sel[ks[j]]]]),
                          !.view = i]
    /\ UNCHANGED <<union, registry, grid, alive, roles, annot>>

\* A faulty variant of the write: it lands in a private copy of the data,
\* not in the buffer the array shares with the column.
SetItemOnCopy(i, k, x) ==
    /\ i \in 1..Len(views)
    /\ k \in 1..Len(views[i].sel)
    /\ last' = [Call("setitem", None, None, "ok") EXCEPT
                    !.raw = PyScalar(x), !.view = i, !.row = k,
                    !.modlog = IF views[i].cls = "vtk_ndarray"
                               THEN ModifiedCalls(views[i], alive) ELSE <<>>]
    /\ UNCHANGED <<union, registry, grid, alive, tab, heap, views, roles, annot, copies>>

\* v[k] = x on a held array: ndarray.__setitem__, and for a vtk_ndarray the
\* Modified() calls that follow it.
SetItem(i, k, x) ==
    /\ i \in 1..Len(views)
    /\ k \in 1..Len(views[i].sel)
    /\ LET w == views[i]
       IN /\ heap' = [heap EXCEPT ![w.buf].rows[w.sel[k]] = Const(heap[w.buf].ncomp, x)]
          /\ last' = [Call("setitem", None, None, "ok") EXCEPT
                          !.raw = PyScalar(x), !.view = i, !.row = k,
                          !.modlog = IF w.cls = "vtk_ndarray"
                                     THEN ModifiedCalls(w, alive) ELSE <<>>]
    /\ UNCHANGED <<union, registry, grid, alive, tab, views, roles, annot, copies>>

\* The caller drops its reference to a held array.
Drop(i) ==
    /\ i \in 1..Len(views)
    /\ Settle(heap, tab,
              [j \in 1..(Len(views) - 1) |-> IF j < i THEN views[j] ELSE views[j + 1]])
    /\ last' = [Call("drop", None, None, "ok") EXCEPT !.view = i]
    /\ UNCHANGED <<union, registry, grid, alive, roles, annot>>

\* The dataset is destroyed, and its tables with it; arrays the caller still
\* holds views of survive.
DestroyDataset ==
    /\ alive
    /\ alive' = FALSE
    /\ Settle(heap, [s \in Scopes |-> <<>>], views)
    /\ roles' = [s \in Scopes |-> NoRoles]
    /\ last' = Call("destroy", None, None, "ok")
    /\ UNCHANGED <<union, registry, grid, annot>>

\* Keys that are not strings: None and the integer -1.
NonStringKeys == {None, "int(-1)"}

\* A faulty variant of the key check: any key the table lacks is a KeyError.
KeyOutcomeUntyped(cols, key) == IF HasName(cols, key) THEN "ok" ELSE "KeyError"

\* The outcome of looking up the key of remove, del and pop.
KeyOutcome(cols, key) ==
    IF key \in NonStringKeys THEN "TypeError"
    ELSE IF ~HasName(cols, key) THEN "KeyError"
    ELSE "ok"

\* table.remove(name), del table[name]
Remove(scope, name) ==
    /\ alive
    /\ IF KeyOutcome(tab[scope], name) = "ok"
       THEN /\ Settle(heap, [tab EXCEPT ![scope] = Without(@, name)], views)
            /\ roles' = [roles EXCEPT ![scope] = RolesWithout(@, name)]
            /\ last' = Call("remove", scope, name, "ok")
       ELSE /\ UNCHANGED <<tab, roles, heap, views, copies>>
            /\ last' = Call("remove", scope, name, KeyOutcome(tab[scope], name))
    /\ UNCHANGED <<union, registry, grid, alive, annot>>

\* table.pop(name): the column's value, then remove(name)
Pop(scope, name) ==
    /\ alive
    /\ IF KeyOutcome(tab[scope], name) = "ok"
       THEN /\ Settle(heap, [tab EXCEPT ![scope] = Without(@, name)], views)
            /\ roles' = [roles EXCEPT ![scope] = RolesWithout(@, name)]
            /\ last' = [Call("pop", scope, name, "ok") EXCEPT
                              !.ret = Read(scope, name), !.dtype = ReadTypeOf(scope, name)]
       ELSE /\ UNCHANGED <<tab, roles, heap, views, copies>>
            /\ last' = Call("pop", scope, name, KeyOutcome(tab[scope], name))
    /\ UNCHANGED <<union, registry, grid, alive, annot>>

\* table.pop(name, default): as pop(name) for a name of the table, else the
\* default object.
PopDefault(scope, name) ==
    IF HasName(tab[scope], name) THEN Pop(scope, name)
    ELSE /\ alive
         /\ last' = Call("popdefault", scope, name, "default")
         /\ UNCHANGED <<union, registry, grid, alive, tab, heap, views, roles, annot, copies>>

\* The operation recorded for table.get(name) and table.get(name, default).
GetOp(withDefault) == IF withDefault THEN "dictgetdefault" ELSE "dictget"

\* A faulty variant of get: an absent name is a KeyError, as for table[name].
GetRaises(scope, name, withDefault) ==
    /\ alive
    /\ last' = IF HasName(tab[scope], name)
               THEN [Call(GetOp(withDefault), scope, name, "ok") EXCEPT !.ret = Read(scope, name)]
               ELSE Call(GetOp(withDefault), scope, name, "KeyError")
    /\ UNCHANGED <<union, registry, grid, alive, tab, heap, views, roles, annot, copies>>

\* table.get(name) and table.get(name, default): the column's value for a
\* name of the table, else None or the default object.
Get(scope, name, withDefault) ==
    /\ alive
    /\ last' = IF HasName(tab[scope], name)
               THEN [Call(GetOp(withDefault), scope, name, "ok") EXCEPT !.ret = Read(scope, name)]
               ELSE Call(GetOp(withDefault), scope, name, IF withDefault THEN "default" ELSE "None")
    /\ UNCHANGED <<union, registry, grid, alive, tab, heap, views, roles, annot, copies>>

\* len(table)
TableLen(cols) == Len(cols)

LenCall(scope) ==
    /\ alive
    /\ last' = [Call("len", scope, None, "ok") EXCEPT !.n = TableLen(tab[scope])]
    /\ UNCHANGED <<union, registry, grid, alive, tab, heap, views, roles, annot, copies>>

\* FieldDataBase.keys()
KeysCall(scope) ==
    /\ alive
    /\ last' = [Call("keys", scope, None, "ok") EXCEPT !.list = Keys(tab[scope])]
    /\ UNCHANGED <<union, registry, grid, alive, tab, heap, views, roles, annot, copies>>

\* A faulty variant of values(): the arrays are listed last to first.
ValuesReversed(scope) ==
    [i \in 1..Len(tab[scope]) |->
        ViewValue(heap, ColumnView(scope, tab[scope][Len(tab[scope]) + 1 - i].arr))]

\* FieldDataBase.values(): the value of get_array(i) for each index i.
Values(scope) ==
    [i \in 1..Len(tab[scope]) |-> ViewValue(heap, ColumnView(scope, tab[scope][i].arr))]

ValuesCall(scope) ==
    /\ alive
    /\ last' = [Call("values", scope, None, "ok") EXCEPT !.list = Values(scope)]
    /\ UNCHANGED <<union, registry, grid, alive, tab, heap, views, roles, annot, copies>>

\* ------------------------------------------------------- copies, equality
\* table[name][k] = x: a write into the column through the array get_array
\* returns, which lies over the vtk array's memory.
WriteColumn(scope, name, k, x) ==
    /\ alive
    /\ HasName(tab[scope], name)
    /\ k \in 1..Len(heap[ArrOf(tab[scope], name)].rows)
    /\ LET id == ArrOf(tab[scope], name)
       IN heap' = [heap EXCEPT ![id].rows[k] = [j \in 1..heap[id].ncomp |-> x]]
    /\ last' = [Call("write", scope, name, "ok") EXCEPT !.row = k]
    /\ UNCHANGED <<union, registry, grid, alive, tab, views, roles, annot, copies>>

\* vtkFieldData.DeepCopy: every array of cols is copied into a new object.
RECURSIVE DeepCopyInto(_, _, _)
DeepCopyInto(h, cols, done) ==
    IF cols = <<>> THEN [heap |-> h, cols |-> done]
    ELSE LET id == FreeId(h)
         IN DeepCopyInto([h EXCEPT ![id] = h[Head(cols).arr]], Tail(cols),
                         Append(done, [name |-> Head(cols).name, arr |-> id]))

\* A faulty variant of the copied columns: the deep copy shares the arrays.
CopiedColumnsShared(deep) == [heap |-> heap, cols |-> tab["POINT"]]

\* The point table of dataset.copy(deep): new arrays of the same content for
\* a deep copy, the same arrays for a shallow copy.
CopiedColumns(deep) ==
    IF deep THEN DeepCopyInto(heap, tab["POINT"], <<>>)
    ELSE [heap |-> heap, cols |-> tab["POINT"]]

\* DataObjectBase.copy(deep): a new object of the same type that took the
\* arrays and the active attributes by DeepCopy or ShallowCopy; the flags of
\* the new object are empty.  The copy replaces an earlier one of its kind.
Copy(deep) ==
    /\ alive
    /\ LET k == IF deep THEN "deep" ELSE "shallow"
           d == CopiedColumns(deep)
           c == [made |-> TRUE, cols |-> d.cols, roles |-> roles["POINT"], annot |-> NoAnnot]
       IN /\ SettleAll(d.heap, tab, views, [copies EXCEPT ![k] = c])
          /\ last' = [Call("copy", "POINT", None, "ok") EXCEPT !.kind = k]
    /\ UNCHANGED <<union, registry, grid, alive, roles, annot>>

\* The objects handed to deep_copy, shallow_copy, copy_attributes and
\* copy_structure: the object dataset.copy(deep=True) returned, and an
\* object of a type the dataset is no instance of.
OtherType == "vtkImageData"
Sources == {"deep"}

\* deep_copy(to_copy) raises TypeError unless the dataset is an instance of
\* to_copy's type.
DeepCopyOutcome(other) == IF other = OtherType THEN "TypeError" ELSE "ok"

\* dataset.deep_copy(to_copy): DeepCopy overwrites the dataset's point table
\* with new arrays of the content of to_copy's and takes its active
\* attributes.  The copies hold a point table only, the other tables are
\* empty wherever copies are made.
DeepCopyFrom(other) ==
    /\ alive
    /\ other \in CopyKinds => copies[other].made
    /\ tab["CELL"] = <<>> /\ tab["FIELD"] = <<>>
    /\ IF DeepCopyOutcome(other) = "ok"
       THEN LET d == DeepCopyInto(heap, copies[other].cols, <<>>)
            IN /\ SettleAll(d.heap, [tab EXCEPT !["POINT"] = d.cols], views, copies)
               /\ roles' = [roles EXCEPT !["POINT"] = copies[other].roles]
       ELSE UNCHANGED <<tab, heap, views, copies, roles>>
    /\ last' = [Call("deepcopyfrom", "POINT", None, DeepCopyOutcome(other)) EXCEPT
                    !.kind = other]
    /\ UNCHANGED <<union, registry, grid, alive, annot>>

\* dataset.shallow_copy(to_copy): ShallowCopy makes the dataset's point
\* table hold to_copy's arrays and takes its active attributes.
ShallowCopyFrom(other) ==
    /\ alive
    /\ other \in CopyKinds /\ copies[other].made
    /\ tab["CELL"] = <<>> /\ tab["FIELD"] = <<>>
    /\ SettleAll(heap, [tab EXCEPT !["POINT"] = copies[other].cols], views, copies)
    /\ roles' = [roles EXCEPT !["POINT"] = copies[other].roles]
    /\ last' = [Call("shallowcopyfrom", "POINT", None, "ok") EXCEPT !.kind = other]
    /\ UNCHANGED <<union, registry, grid, alive, annot>>

\* The loop of vtkDataSetAttributes.PassData: every array of the source is
\* added to the table (AddArray: in place under a name of the table, else at
\* the end).
RECURSIVE AddArrays(_, _)
AddArrays(cols, source) ==
    IF source = <<>> THEN cols
    ELSE AddArrays(AddArray(cols, Head(source).name, Head(source).arr), Tail(source))

\* vtkDataSetAttributes.PassData: nothing happens for a source without
\* arrays; else the arrays registered as active attributes are removed from
\* the table and every registration is reset, the source's arrays are added
\* and those active in the source are made active.
PassData(cols, r, source, sourceRoles) ==
    IF source = <<>> THEN [cols |-> cols, roles |-> r]
    ELSE [cols |-> AddArrays(SelectSeq(cols, LAMBDA c : \A k \in RoleKinds : r[k] # c.name),
                             source),
          roles |-> sourceRoles]

\* dataset.copy_attributes(dataset): CopyAttributes passes the source's
\* arrays to the dataset's tables, which then hold the same arrays in place
\* of their active attribute arrays, and makes active what is active in the
\* source.
CopyAttributesFrom(other) ==
    /\ alive
    /\ other \in CopyKinds /\ copies[other].made
    /\ tab["CELL"] = <<>> /\ tab["FIELD"] = <<>>
    /\ LET p == PassData(tab["POINT"], roles["POINT"], copies[other].cols,
                         copies[other].roles)
       IN /\ SettleAll(heap, [tab EXCEPT !["POINT"] = p.cols], views, copies)
          /\ roles' = [roles EXCEPT !["POINT"] = p.roles]
    /\ last' = [Call("copyattributesfrom", "POINT", None, "ok") EXCEPT !.kind = other]
    /\ UNCHANGED <<union, registry, grid, alive, annot>>

\* dataset.copy_structure(dataset): CopyStructure takes the points and the
\* cells of the source, which a copy of the dataset has as the dataset has
\* them; the tables are not touched.
CopyStructureFrom(other) ==
    /\ alive
    /\ other \in CopyKinds /\ copies[other].made
    /\ last' = Call("copystructurefrom", "POINT", None, "ok")
    /\ UNCHANGED <<union, registry, grid, alive, tab, heap, views, roles, annot, copies>>

\* A faulty variant of table equality: the roles are not compared.
TableEqNoRoles(colsA, rolesA, colsB, rolesB) ==
    /\ {colsA[i].name : i \in 1..Len(colsA)} = {colsB[i].name : i \in 1..Len(colsB)}
    /\ \A i \in 1..Len(colsA) :
            heap[colsA[i].arr].rows = heap[ArrOf(colsB, colsA[i].name)].rows

\* table == other for two tables: the same names, element-wise equal
\* columns under each name, the same name registered for every role.
TableEq(colsA, rolesA, colsB, rolesB) ==
    /\ {colsA[i].name : i \in 1..Len(colsA)} = {colsB[i].name : i \in 1..Len(colsB)}
    /\ \A i \in 1..Len(colsA) :
            heap[colsA[i].arr].rows = heap[ArrOf(colsB, colsA[i].name)].rows
    /\ rolesA = rolesB

\* The operands the point table is compared with: the point table of the
\* deep copy, that of the shallow copy, a list.
Operands == CopyKinds \cup {"list"}

\* point_data == other
TableEquals(other) ==
    /\ other \in CopyKinds
    /\ copies[other].made
    /\ TableEq(tab["POINT"], roles["POINT"], copies[other].cols, copies[other].roles)

Compare(other) ==
    /\ alive
    /\ other \in CopyKinds => copies[other].made
    /\ last' = [Call("eq", "POINT", None, IF TableEquals(other) THEN "equal" ELSE "unequal")
                    EXCEPT !.kind = other]
    /\ UNCHANGED <<union, registry, grid, alive, tab, heap, views, roles, annot, copies>>

\* FieldDataBase.get_array(idx) with an integer idx (0-based): IndexError
\* past the end, the sentinel dsa.NoneArray for a negative idx.
GetArrayAt(scope, idx) ==
    /\ alive
    /\ last' = IF idx >= Len(tab[scope])
               THEN [Call("getat", scope, None, "IndexError") EXCEPT !.n = idx]
               ELSE IF idx < 0
               THEN [Call("getat", scope, None, "NoneArray") EXCEPT !.n = idx]
               ELSE [Call("getat", scope, tab[scope][idx + 1].name, "ok") EXCEPT
                        !.n = idx,
                        !.ret = ViewValue(heap, ColumnView(scope, tab[scope][idx + 1].arr))]
    /\ UNCHANGED <<union, registry, grid, alive, tab, heap, views, roles, annot, copies>>

\* table.clear()
Clear(scope) ==
    /\ alive
    /\ Settle(heap, [tab EXCEPT ![scope] = <<>>], views)
    /\ roles' = [roles EXCEPT ![scope] = NoRoles]
    /\ last' = Call("clear", scope, None, "ok")
    /\ UNCHANGED <<union, registry, grid, alive, annot>>

\* A faulty variant: a table without roles answers None.
NoRoleNone(kind) == "None"

\* The error of a role accessor on a table that has no roles.
NoRoleError(kind) == IF kind = "scalars" THEN "TypeError" ELSE "AttributeError"

\* A faulty variant of the validation: any name is accepted.
SetActiveUnchecked(scope, kind, name) ==
    IF scope \notin {"POINT", "CELL"} THEN NoRoleError(kind) ELSE "ok"

\* The outcome of table.active_<kind>_name = name
SetActiveOutcome(scope, kind, name) ==
    IF scope \notin {"POINT", "CELL"} THEN NoRoleError(kind)
    ELSE IF name = None THEN "ok"
    ELSE IF ~HasName(tab[scope], name) THEN "KeyError"
    ELSE IF heap[ArrOf(tab[scope], name)].ncomp \notin RoleComponents(kind) THEN "ValueError"
    ELSE "ok"

\* A faulty variant of the assignment: assigning None resets every role.
SetActiveNameResetsAll(scope, kind, name) ==
    /\ alive
    /\ LET outcome == SetActiveOutcome(scope, kind, name)
       IN /\ roles' = IF outcome # "ok" THEN roles
                      ELSE IF name = None THEN [roles EXCEPT ![scope] = NoRoles]
                      ELSE [roles EXCEPT ![scope][kind] = name]
          /\ last' = [Call("setactive", scope, name, outcome) EXCEPT
                          !.kind = kind, !.prior = roles[scope][kind]]
    /\ UNCHANGED <<union, registry, grid, alive, tab, heap, views, annot, copies>>

\* table.active_<kind>_name = name (name may be None)
SetActiveName(scope, kind, name) ==
    /\ alive
    /\ LET outcome == SetActiveOutcome(scope, kind, name)
       IN /\ roles' = IF outcome = "ok" THEN [roles EXCEPT ![scope][kind] = name] ELSE roles
          /\ last' = [Call("setactive", scope, name, outcome) EXCEPT
                          !.kind = kind, !.prior = roles[scope][kind]]
    /\ UNCHANGED <<union, registry, grid, alive, tab, heap, views, annot, copies>>

\* table.active_<kind>_name and table.active_<kind>: the registered name
\* and the value of its column.
GetActive(scope, kind) ==
    /\ alive
    /\ LET name == roles[scope][kind]
       IN last' =
            IF scope \notin {"POINT", "CELL"}
            THEN [Call("getactive", scope, None, NoRoleError(kind)) EXCEPT !.kind = kind]
            ELSE IF name = None
            THEN [Call("getactive", scope, None, "None") EXCEPT !.kind = kind]
            ELSE [Call("getactive", scope, name, "ok") EXCEPT
                      !.kind = kind, !.ret = GetValue(scope, name)]
    /\ UNCHANGED <<union, registry, grid, alive, tab, heap, views, roles, annot, copies>>

\* -------------------------------------------------------- composite union
InSeq(x, seq) == \E i \in 1..Len(seq) : seq[i] = x

\* A block's table with the column of the given name set: replaced in place
\* or appended (vtkFieldData.AddArray).
WithColumn(table, name, ncomp, rows) ==
    IF HasName(table, name)
    THEN [table EXCEPT ![IndexOf(table, name)] = [name |-> name, ncomp |-> ncomp, rows |-> rows]]
    ELSE Append(table, [name |-> name, ncomp |-> ncomp, rows |-> rows])

\* A faulty variant: dsa.NoneArray is stored as an empty column.
BlockSetArrayStoresNone(table, name, raw) ==
    IF raw.kind = "NoneArray" THEN WithColumn(table, name, 0, <<>>)
    ELSE LET r == Normalize(None, raw)
         IN IF r.outcome = "ok" THEN WithColumn(table, name, r.ncomp, r.rows) ELSE table

\* FieldDataBase.set_array(name, narray) on the table a block returns from
\* GetAttributes: its association is None, so the array keeps its length.
BlockSetArray(table, name, raw) ==
    LET r == Normalize(None, raw)
    IN IF r.outcome = "ok" THEN WithColumn(table, name, r.ncomp, r.rows) ELSE table

\* table.set_array(name, raw) called directly on block b.
BlockSet(b, name, raw) ==
    /\ union' = [union EXCEPT !.DataSet[b] = BlockSetArray(@, name, raw)]
    /\ last' = [Call("blockset", None, None, Normalize(None, raw).outcome) EXCEPT
                    !.raw = raw]
    /\ UNCHANGED <<registry, grid, alive, tab, heap, views, roles, annot, copies>>

\* table.RemoveArray(name) called directly on block b.
BlockRemove(b, name) ==
    /\ HasName(union.DataSet[b], name)
    /\ union' = [union EXCEPT !.DataSet[b] = Without(@, name)]
    /\ last' = Call("blockremove", None, None, "ok")
    /\ UNCHANGED <<registry, grid, alive, tab, heap, views, roles, annot, copies>>

\* __determine_arraynames: the names of the blocks' tables in the order of
\* the traversal, each at its first occurrence.
RECURSIVE AppendNew(_, _)
AppendNew(array_list, keys) ==
    IF keys = <<>> THEN array_list
    ELSE AppendNew(IF InSeq(Head(keys), array_list) THEN array_list
                   ELSE Append(array_list, Head(keys)),
                   Tail(keys))

RECURSIVE DetermineFrom(_, _, _)
DetermineFrom(blocks, b, array_list) ==
    IF b > Len(blocks) THEN array_list
    ELSE DetermineFrom(blocks, b + 1, AppendNew(array_list, Keys(blocks[b])))

\* A faulty variant: the blocks are scanned on every call of keys().
KnownKeysRescanned == DetermineFrom(union.DataSet, 1, <<>>)

\* CompositeDataSetAttributes.keys(): the list made at construction.
KnownKeys == union.ArrayNames

\* CompositeDataSetAttributes(dataset, association)
Construct ==
    /\ ~union.built
    /\ union' = [union EXCEPT !.built = TRUE,
                              !.ArrayNames = DetermineFrom(union.DataSet, 1, <<>>)]
    /\ last' = Call("construct", None, None, "ok")
    /\ UNCHANGED <<registry, grid, alive, tab, heap, views, roles, annot, copies>>

UnionKeys ==
    /\ union.built
    /\ last' = [Call("unionkeys", None, None, "ok") EXCEPT !.list = KnownKeys]
    /\ UNCHANGED <<union, registry, grid, alive, tab, heap, views, roles, annot, copies>>

\* A faulty variant: the cache entry keeps referring to the collected array.
ReleasedStill(u, id) == [u EXCEPT !.held[id] = NotHeld]

\* The composite array a caller holds no longer: it is collected, and the
\* weak references to it are dead.
Released(u, id) ==
    [u EXCEPT !.held[id] = NotHeld,
              !.Arrays = [n \in Names |-> IF @[n].ref = id THEN Entry(0) ELSE @[n]]]

FreeHeld(u) == CHOOSE i \in 1..MaxHeld : ~u.held[i].live /\ \A j \in 1..(i - 1) : u.held[j].live

\* The weak reference of the entry for a name is alive.
Cached(name) == union.Arrays[name].has /\ union.Arrays[name].ref # 0

\* CompositeDataSetAttributes.get_array(name), also union[name]; keep: the
\* caller keeps a reference to a newly made array (an array that is not
\* kept is collected when the call is over).
UnionGet(name, keep) ==
    /\ union.built
    /\ IF ~InSeq(name, union.ArrayNames)
       THEN /\ last' = Call("unionget", None, name, "NoneArray")
            /\ UNCHANGED union
       ELSE IF Cached(name)
       THEN /\ last' = [Call("unionget", None, name, "ok") EXCEPT
                           !.view = union.Arrays[name].ref, !.kind = "cached"]
            /\ UNCHANGED union
       ELSE /\ \E i \in 1..MaxHeld : ~union.held[i].live
            /\ LET id == FreeHeld(union)
                   made == [union EXCEPT
                               !.held[id] = [live |-> TRUE, Name |-> name,
                                             Initialized |-> FALSE, Arrays |-> <<>>],
                               !.Arrays[name] = Entry(id)]
               IN /\ union' = IF keep THEN made ELSE Released(made, id)
                  /\ last' = [Call("unionget", None, name, "ok") EXCEPT
                                 !.view = id, !.kind = "new"]
    /\ UNCHANGED <<registry, grid, alive, tab, heap, views, roles, annot, copies>>

\* block_table[name]: FieldDataBase.get_array on a block's table.
BlockArray(table, name) ==
    IF HasName(table, name)
    THEN LET c == table[IndexOf(table, name)] IN Slot("VTKArray", c.ncomp, c.rows)
    ELSE NoneArraySlot

\* A faulty variant: blocks that lack the column are left out.
CompositeArraysSparse(name) ==
    SelectSeq([b \in 1..NBlocks |-> BlockArray(union.DataSet[b], name)],
              LAMBDA a : a.kind = "VTKArray")

\* VTKCompositeDataArray over the dataset: one array per block, in the
\* order of the traversal.
CompositeArrays(name) == [b \in 1..NBlocks |-> BlockArray(union.DataSet[b], name)]

\* The composite array with its Arrays filled (on first access).
Initialized(obj) ==
    IF obj.Initialized THEN obj
    ELSE [obj EXCEPT !.Initialized = TRUE, !.Arrays = CompositeArrays(obj.Name)]

\* composite.Arrays read by the caller.
ReadArrays(id) ==
    /\ union.held[id].live
    /\ union' = [union EXCEPT !.held[id] = Initialized(@)]
    /\ last' = [Call("arrays", None, union.held[id].Name, "ok") EXCEPT
                    !.view = id, !.list = Initialized(union.held[id]).Arrays,
                    !.kind = IF union.held[id].Initialized THEN "cached" ELSE "new"]
    /\ UNCHANGED <<registry, grid, alive, tab, heap, views, roles, annot, copies>>

\* The caller drops its reference to a composite array.
Release(id) ==
    /\ union.held[id].live
    /\ union' = Released(union, id)
    /\ last' = [Call("release", None, union.held[id].Name, "ok") EXCEPT !.view = id]
    /\ UNCHANGED <<registry, grid, alive, tab, heap, views, roles, annot, copies>>

\* The blocks after the loop over zip(DataSet, narray.Arrays): every block
\* whose array is not None is handed the array.
RECURSIVE AssignEach(_, _, _, _)
AssignEach(blocks, arrays, name, b) ==
    IF b > Len(blocks) \/ b > Len(arrays) THEN blocks
    ELSE AssignEach(
            IF arrays[b].kind = "None" THEN blocks
            ELSE [blocks EXCEPT ![b] =
                    BlockSetArray(@, name,
                        IF arrays[b].kind = "NoneArray" THEN NoneArray
                        ELSE NdArray(IF arrays[b].ncomp = 1 THEN <<Len(arrays[b].rows)>>
                                     ELSE <<Len(arrays[b].rows), arrays[b].ncomp>>,
                                     [t \in 1..(Len(arrays[b].rows) * arrays[b].ncomp) |->
                                        arrays[b].rows[((t - 1) \div arrays[b].ncomp) + 1]
                                                      [((t - 1) % arrays[b].ncomp) + 1]]))],
            arrays, name, b + 1)

\* added: set_array was called on some block.
Added(blocks, arrays) ==
    \E b \in 1..Len(blocks) : b <= Len(arrays) /\ arrays[b].kind # "None"

\* A faulty variant: the supplied composite array is not cached.
RememberedNever(entry, added, id) == entry

\* self.Arrays[name] = weakref.ref(narray), when added.
Remembered(entry, added, id) == IF added THEN Entry(id) ELSE entry

\* CompositeDataSetAttributes.set_array(name, narray) for a composite array
\* the caller built from arrays and passes; keep: the caller keeps its
\* reference after the call.
UnionSetComposite(name, arrays, keep) ==
    /\ union.built
    /\ Len(union.ArrayNames) < MaxKeys
    /\ \E i \in 1..MaxHeld : ~union.held[i].live
    /\ LET id == FreeHeld(union)
           added == Added(union.DataSet, arrays)
           made == [union EXCEPT
                       !.held[id] = [live |-> TRUE, Name |-> None,
                                     Initialized |-> TRUE, Arrays |-> arrays],
                       !.DataSet = AssignEach(@, arrays, name, 1),
                       !.ArrayNames = IF added THEN Append(@, name) ELSE @,
                       !.Arrays[name] = Remembered(@, added, id)]
       IN /\ union' = IF keep THEN made ELSE Released(made, id)
          /\ last' = [Call("unionset", None, name, "ok") EXCEPT
                         !.list = arrays, !.view = id, !.kind = "composite"]
    /\ UNCHANGED <<registry, grid, alive, tab, heap, views, roles, annot, copies>>

\* CompositeDataSetAttributes.set_array(name, narray) for a value that is
\* not a composite array: nothing for dsa.NoneArray; else the first block's
\* table is asked for append, which FieldDataBase does not have.
UnionSetPlain(name, raw) ==
    /\ union.built
    /\ last' = [Call("unionset", None, name,
                     IF raw.kind = "NoneArray" THEN "noop"
                     ELSE IF Len(union.DataSet) = 0 THEN "ok"
                     ELSE "AttributeError") EXCEPT !.raw = raw, !.kind = "plain"]
    /\ UNCHANGED <<union, registry, grid, alive, tab, heap, views, roles, annot, copies>>

\* ----------------------------------------------------------------- override
\* A faulty variant: override(T, None) leaves the installed subclass.
InstalledSticky(T, subclass) ==
    IF HasOverride(T) /\ subclass # None THEN subclass ELSE registry.override[T]

\* The subclass installed on T after wrapper(subclass): T.override(subclass)
\* installs it (None reverts), a type without override is left alone.
Installed(T, subclass) ==
    IF HasOverride(T) THEN subclass ELSE registry.override[T]

\* wrapper(subclass), reached by the call form or the decorator form: the
\* class it returns (last.kind) and the warning it gives (last.msg).
Wrapper(T, subclass, form) ==
    /\ Len(registry.events) < MaxEvents
    /\ registry' = [override |-> [registry.override EXCEPT ![T] = Installed(T, subclass)],
                    events |-> Append(registry.events,
                                      [op |-> "override", T |-> T, cls |-> subclass])]
    /\ last' = [Call("override", form, T, "ok") EXCEPT
                    !.kind = subclass,
                    !.msg = IF HasOverride(T) THEN "" ELSE "FailedOverrideWarning"]
    /\ UNCHANGED <<union, grid, alive, tab, heap, views, roles, annot, copies>>

\* override(T, subclass), also override(T, None)
OverrideCall(T, subclass) == Wrapper(T, subclass, "call")

\* @override(T) on the definition of the subclass
OverrideDecorator(T, subclass) == Wrapper(T, subclass, "decorator")

\* T(): an instance of the installed subclass, or of T itself.
NewInstance(T) ==
    /\ Len(registry.events) < MaxEvents
    /\ LET cls == IF registry.override[T] = None THEN T ELSE registry.override[T]
       IN /\ registry' = [registry EXCEPT
                             !.events = Append(@, [op |-> "new", T |-> T, cls |-> cls])]
          /\ last' = [Call("new", None, T, "ok") EXCEPT !.kind = cls]
    /\ UNCHANGED <<union, grid, alive, tab, heap, views, roles, annot, copies>>

\* --------------------------------------------------------- rectilinear grid
\* A faulty variant: the dimensions stay as they were.
UpdatedDimensionsStale(g) == g.dimensions

\* _update_dimensions: SetDimensions(len(x), len(y), len(z))
UpdatedDimensions(g) == <<Len(g.x), Len(g.y), Len(g.z)>>

\* convert_array of the argument is a vtkDataArray (a list of strings gives
\* a vtkStringArray, which SetXCoordinates refuses with TypeError).
IsDataArray(c) == c.kind \in {"list", "ndarray"}

\* The grid after the setter of an axis: SetXCoordinates, _update_dimensions.
WithCoords(g, axis, c) ==
    LET h == IF axis = "x" THEN [g EXCEPT !.x = c.vals]
             ELSE IF axis = "y" THEN [g EXCEPT !.y = c.vals]
             ELSE [g EXCEPT !.z = c.vals]
    IN [h EXCEPT !.dimensions = UpdatedDimensions(h)]

\* grid.x = coords, grid.y = coords, grid.z = coords
SetCoords(axis, c) ==
    /\ grid.made
    /\ grid' = IF IsDataArray(c) THEN WithCoords(grid, axis, c) ELSE grid
    /\ last' = [Call("setcoords", None, axis,
                     IF IsDataArray(c) THEN "ok" ELSE "TypeError") EXCEPT !.list = c.vals]
    /\ UNCHANGED <<union, registry, alive, tab, heap, views, roles, annot, copies>>

\* (x, y, z).count(None) compares every argument with None: an ndarray of
\* more than one element has no truth value (ValueError).
CountRaises(x, y, z) ==
    \E c \in {x, y, z} : c.kind = "ndarray" /\ Len(c.vals) > 1

CountNone(x, y, z) ==
    (IF x = NoCoord THEN 1 ELSE 0) + (IF y = NoCoord THEN 1 ELSE 0)
        + (IF z = NoCoord THEN 1 ELSE 0)

\* RectilinearGrid(x, y, z): the grid when the constructor returns.
Constructed(x, y, z) ==
    LET gx == IF x = NoCoord THEN FreshGrid ELSE WithCoords(FreshGrid, "x", x)
        gy == IF y = NoCoord THEN gx ELSE WithCoords(gx, "y", y)
        gz == IF z = NoCoord THEN gy ELSE WithCoords(gy, "z", z)
    IN IF CountNone(x, y, z) < 3
       THEN [gz EXCEPT !.given = TRUE, !.dimensions = UpdatedDimensions(gz)]
       ELSE gz

GridInitOutcome(x, y, z) ==
    IF \E c \in {x, y, z} : c # NoCoord /\ ~IsDataArray(c) THEN "TypeError"
    ELSE IF CountRaises(x, y, z) THEN "ValueError"
    ELSE "ok"

GridInit(x, y, z) ==
    /\ ~grid.made
    /\ grid' = IF GridInitOutcome(x, y, z) = "ok" THEN Constructed(x, y, z) ELSE grid
    /\ last' = [Call("gridinit", None, None, GridInitOutcome(x, y, z)) EXCEPT
                    !.n = 3 - CountNone(x, y, z)]
    /\ UNCHANGED <<union, registry, alive, tab, heap, views, roles, annot, copies>>

\* The grids handed to deep_copy, shallow_copy and copy_structure: one
\* constructed without arguments, one constructed with x.
OtherGrids == {FreshGrid, Constructed(Coord("list", MaxCoords), NoCoord, NoCoord)}

\* grid.deep_copy(other), grid.shallow_copy(other), grid.copy_structure(other):
\* DeepCopy, ShallowCopy and CopyStructure give the grid the coordinates and
\* the dimensions of other; deep_copy raises TypeError for an object of a
\* type the grid is no instance of (other = NoGrid stands for it).
GridCopyFrom(how, other) ==
    /\ grid.made
    /\ other = NoGrid => how = "deep_copy"
    /\ grid' = IF other = NoGrid THEN grid ELSE other
    /\ last' = Call(how, None, None, IF other = NoGrid THEN "TypeError" ELSE "ok")
    /\ UNCHANGED <<union, registry, alive, tab, heap, views, roles, annot, copies>>

\* grid.copy_attributes(other): CopyAttributes passes other's arrays to the
\* grid's tables; the coordinates and the dimensions are not touched.
GridCopyAttributes ==
    /\ grid.made
    /\ last' = Call("copy_attributes", None, None, "ok")
    /\ UNCHANGED <<grid, union, registry, alive, tab, heap, views, roles, annot, copies>>

\* grid.dimensions = dims
SetDimensionsAttr(dims) ==
    /\ grid.made
    /\ last' = [Call("setdimensions", None, None, "AttributeError") EXCEPT !.list = dims]
    /\ UNCHANGED <<grid, union, registry, alive, tab, heap, views, roles, annot, copies>>

\* grid.points = points
SetPointsAttr(n) ==
    /\ grid.made
    /\ last' = [Call("setpoints", None, None, "AttributeError") EXCEPT !.n = n]
    /\ UNCHANGED <<grid, union, registry, alive, tab, heap, views, roles, annot, copies>>

\* grid.dimensions
GetDimensions ==
    /\ grid.made
    /\ last' = [Call("dimensions", None, None, "ok") EXCEPT !.list = grid.dimensions]
    /\ UNCHANGED <<grid, union, registry, alive, tab, heap, views, roles, annot, copies>>

\* --------------------------------------------------------- specifications
\* Tables: set, get and remove on the point table with every raw value.
NextTable ==
    \/ \E n \in Names, r \in RawValues : SetArray("POINT", n, r)
    \/ \E n \in Names : GetArray("POINT", n, FALSE)
    \/ \E n \in Names : Remove("POINT", n)

SpecTable == Init /\ [][NextTable]_vars

\* Views: arrays the caller holds on a column of the point table, which
\* starts as zeros; the caller writes 7, takes the slices v[0:1], v[0:],
\* v[1:1] and v[1:] and the copy v[[0]], and drops the array it got last.
RawViewed == {NdArray(<<NPoints>>, Const(NPoints, 0))}
ViewNames == {"x"}

NextView ==
    \/ \E n \in ViewNames, r \in RawViewed : SetArray("POINT", n, r)
    \/ \E n \in ViewNames : GetArray("POINT", n, TRUE)
    \/ \E n \in ViewNames, d \in BOOLEAN : NewNdarray("POINT", n, d)
    \/ \E i \in 1..MaxViews, a \in 0..1, b \in {1, NPoints} : Slice(i, a, b)
    \/ \E i \in 1..MaxViews : Fancy(i, <<1>>)
    \/ \E i \in 1..MaxViews, k \in 1..NPoints : SetItem(i, k, 7)
    \/ Drop(Len(views))
    \/ DestroyDataset

SpecView == Init /\ [][NextView]_vars

\* Roles: the active-role registry of the point table.
RawRoles == {NdArray(<<NPoints>>, Ramp(NPoints, 0))}
                \cup {NdArray(<<NPoints, c>>, Ramp(NPoints * c, 0)) : c \in 2..3}

NextRoles ==
    \/ \E n \in Names, r \in RawRoles : SetArray("POINT", n, r)
    \/ \E n \in Names : Remove("POINT", n)
    \/ \E n \in Names : Pop("POINT", n)
    \/ Clear("POINT")
    \/ \E k \in RoleKinds, n \in Names \cup {None} : SetActiveName("POINT", k, n)
    \/ \E k \in RoleKinds : GetActive("POINT", k)

SpecRoles == Init /\ [][NextRoles]_vars

\* Scopes: a cell table, which has roles, and a field table, which has none.
RawScoped == {NdArray(<<NCells>>, Const(NCells, 7)), NdArray(<<NCells, 3>>, Ramp(NCells * 3, 0))}
ScopedScopes == {"CELL", "FIELD"}
ScopedNames == {"x"}

NextScopes ==
    \/ \E s \in ScopedScopes, n \in ScopedNames, r \in RawScoped : SetArray(s, n, r)
    \/ \E s \in ScopedScopes, n \in ScopedNames : GetArray(s, n, FALSE)
    \/ \E s \in ScopedScopes, n \in ScopedNames : Remove(s, n)
    \/ \E s \in ScopedScopes, k \in RoleKinds, n \in ScopedNames \cup {None} : SetActiveName(s, k, n)
    \/ \E s \in ScopedScopes, k \in RoleKinds : GetActive(s, k)

SpecScopes == Init /\ [][NextScopes]_vars

\* Dict: the point table as a mapping from names to columns.
RawDict == {NdArray(<<NPoints>>, Ramp(NPoints, 0)), NdArray(<<NPoints>>, Const(NPoints, 7))}
DictKeys == Names \cup {""} \cup NonStringKeys

RawRejected == {PyNone, PySeq(<<7>>)}

NextDict ==
    \/ \E n \in Names \cup {ListName}, r \in RawDict \cup RawRejected : SetArray("POINT", n, r)
    \/ \E k \in DictKeys : Remove("POINT", k)
    \/ \E k \in DictKeys : Pop("POINT", k)
    \/ \E k \in Names \cup {""} : PopDefault("POINT", k)
    \/ Clear("POINT")
    \/ \E n \in Names, d \in BOOLEAN : Get("POINT", n, d)
    \/ \E n \in Names : GetArray("POINT", n, FALSE)
    \/ \E i \in -1..Cardinality(Names) : GetArrayAt("POINT", i)
    \/ LenCall("POINT")
    \/ KeysCall("POINT")
    \/ ValuesCall("POINT")
    \/ \E n \in Names \cup {None} : SetActiveName("POINT", "scalars", n)

SpecDict == Init /\ [][NextDict]_vars

\* Typed: arrays of several element types set through FieldDataBase, and
\* popped.
RawReal ==
    {TypedArray("int64", <<NPoints>>, Ramp(NPoints, 0)),
     TypedArray("float64", <<NPoints>>, Const(NPoints, 7))}
RawBool == {TypedArray("bool", <<NPoints>>, [i \in 1..NPoints |-> i = 1])}
RawStr == {TypedArray("str", <<NPoints>>, [i \in 1..NPoints |-> "A"])}
RawComplex ==
    {TypedArray("complex64", <<NPoints>>, [i \in 1..NPoints |-> <<i, 7>>]),
     TypedArray("complex128", <<NPoints>>, [i \in 1..NPoints |-> <<i, 7>>]),
     TypedArray("complex128", <<NPoints, 2>>, [i \in 1..(NPoints * 2) |-> <<i, 7>>])}

NextTyped ==
    \/ \E n \in Names, r \in RawReal : SetArrayOfType(n, r)
    \/ \E n \in Names, r \in RawBool : SetArrayOfType(n, r)
    \/ \E n \in Names, r \in RawStr : SetArrayOfType(n, r)
    \/ \E n \in Names : GetArrayOfType(n)
    \/ \E n \in Names : Pop("POINT", n)
    \/ \E n \in Names : PopDefault("POINT", n)

SpecTyped == Init /\ [][NextTyped]_vars

\* Coerce: arrays of several element types set through FieldDataBase.
NextCoerce ==
    \/ \E n \in Names, r \in RawReal : SetArrayOfType(n, r)
    \/ \E n \in Names, r \in RawBool : SetArrayOfType(n, r)
    \/ \E n \in Names, r \in RawStr : SetArrayOfType(n, r)
    \/ \E n \in Names, r \in RawComplex : SetArrayOfType(n, r)
    \/ \E n \in Names : GetArrayOfType(n)

SpecCoerce == Init /\ [][NextCoerce]_vars

\* Copies: the point table of a dataset, of its deep and its shallow copy.
RawCopied == {NdArray(<<NPoints>>, Const(NPoints, 0))}

CopiedNames == {"x"}

NextCopies ==
    \/ \E n \in Names, r \in RawCopied : SetArray("POINT", n, r)
    \/ \E n \in CopiedNames : Remove("POINT", n)
    \/ \E d \in BOOLEAN : Copy(d)
    \/ \E n \in CopiedNames : WriteColumn("POINT", n, 1, 7)
    \/ \E n \in CopiedNames \cup {None} : SetActiveName("POINT", "scalars", n)
    \/ \E o \in Operands : Compare(o)
    \/ \E o \in Sources \cup {OtherType} : DeepCopyFrom(o)
    \/ \E o \in Sources : ShallowCopyFrom(o)
    \/ \E o \in Sources : CopyAttributesFrom(o)
    \/ \E o \in Sources : CopyStructureFrom(o)

SpecCopies == Init /\ [][NextCopies]_vars

\* The composite union over the blocks' tables.
RawBlock == {NoneArray, PyScalar(7)}
\* The composite arrays a caller builds: an array for every block, None for
\* the first block, None for every block, dsa.NoneArray for every block.
SuppliedArrays ==
    {[b \in 1..NBlocks |-> Slot("VTKArray", 1, <<<<7>>>>)],
     [b \in 1..NBlocks |-> IF b = 1 THEN NoneSlot ELSE Slot("VTKArray", 1, <<<<7>>>>)],
     [b \in 1..NBlocks |-> NoneSlot],
     [b \in 1..NBlocks |-> NoneArraySlot]}

NextUnion ==
    \/ \E b \in 1..NBlocks, n \in Names, r \in RawBlock : BlockSet(b, n, r)
    \/ \E b \in 1..NBlocks, n \in Names : BlockRemove(b, n)
    \/ Construct
    \/ UnionKeys
    \/ \E n \in Names, keep \in BOOLEAN : UnionGet(n, keep)
    \/ \E i \in 1..MaxHeld : ReadArrays(i)
    \/ \E i \in 1..MaxHeld : Release(i)

SpecUnion == Init /\ [][NextUnion]_vars

\* Assignment through the composite union.
NextUnionSet ==
    \/ \E b \in 1..NBlocks, r \in RawBlock : BlockSet(b, "x", r)
    \/ Construct
    \/ UnionKeys
    \/ \E n \in Names : UnionGet(n, TRUE)
    \/ \E i \in 1..MaxHeld : Release(i)
    \/ \E n \in Names, a \in SuppliedArrays, keep \in BOOLEAN : UnionSetComposite(n, a, keep)
    \/ \E n \in Names, r \in {NoneArray, PyScalar(7)} : UnionSetPlain(n, r)

SpecUnionSet == Init /\ [][NextUnionSet]_vars

\* Overrides installed on native types and the instances created.
NextOverride ==
    \/ \E T \in Targets, c \in Subclasses \cup {None} : OverrideCall(T, c)
    \/ \E T \in Targets, c \in Subclasses : OverrideDecorator(T, c)
    \/ \E T \in Targets : NewInstance(T)

SpecOverride == Init /\ [][NextOverride]_vars

\* The rectilinear grid.
NextGrid ==
    \/ \E x \in CoordArrays \cup {NoCoord}, y \in CoordArrays \cup {NoCoord},
          z \in CoordArrays \cup {NoCoord} : GridInit(x, y, z)
    \/ \E axis \in Axes, c \in CoordArrays : SetCoords(axis, c)
    \/ \E d \in {<<1, 1, 1>>, <<2, 2, 2>>} : SetDimensionsAttr(d)
    \/ \E n \in {1, 8} : SetPointsAttr(n)
    \/ GetDimensions
    \/ \E how \in {"deep_copy", "shallow_copy", "copy_structure"}, g \in OtherGrids \cup {NoGrid} : GridCopyFrom(how, g)
    \/ GridCopyAttributes

SpecGrid == Init /\ [][NextGrid]_vars

\* ------------------------------------------------------------------ claims
\* C1 (round trip).  After set(n, v) on the point table with a supported raw
\* value v (a number, a sequence, or an array of one row or of point_count()
\* rows) the call succeeds and get(n) reads the elements of the coerced form
\* of v: point_count() copies of a single value or row, else the elements of
\* v in row-major order, whatever was set or removed before.
C1_RoundTrip ==
    (/\ last.op = "set" /\ last.scope = "POINT"
     /\ last.raw.kind \in {"scalar", "seq", "ndarray"}
     /\ (Len(last.raw.shape) = 0 \/ last.raw.shape[1] \in {1, NPoints}))
    => /\ last.outcome = "ok"
       /\ LET v == last.raw
              n == Len(v.flat)
              coerced == IF Len(v.shape) = 0 \/ v.shape[1] # NPoints
                         THEN [t \in 1..(NPoints * n) |-> v.flat[((t - 1) % n) + 1]]
                         ELSE v.flat
          IN GetValue("POINT", last.name).flat = coerced

\* C2 (scalar broadcast with overwrite).  When the point table holds a
\* one-component column n, set(n, v) with a single value v (a number, a
\* one-element sequence, a rank-0 or one-element array) succeeds, get(n) is
\* then a point_count()-element array of that value, and the table holds
\* exactly one column named n.
C2_ScalarBroadcast ==
    [][\A n \in Names :
        (/\ HasName(tab["POINT"], n)
         /\ heap[ArrOf(tab["POINT"], n)].ncomp = 1
         /\ last'.op = "set" /\ last'.scope = "POINT" /\ last'.name = n
         /\ last'.raw.kind \in {"scalar", "seq", "ndarray"}
         /\ Len(last'.raw.flat) = 1)
        => /\ last'.outcome = "ok"
           /\ GetValue("POINT", n)' =
                [shape |-> <<NPoints>>, flat |-> Const(NPoints, last'.raw.flat[1])]
           /\ Cardinality({i \in 1..Len(tab'["POINT"]) : tab'["POINT"][i].name = n}) = 1
      ]_vars

C4_Aliasing ==
    last.op = "setitem" =>
        LET v1 == views[last.view]
            r == v1.sel[last.row]
            X == last.raw.flat[1]
        IN /\ \A j \in 1..Len(views) :
                (views[j].VTKObject # 0 /\ views[j].VTKObject = v1.VTKObject) =>
                    \A k \in 1..Len(views[j].sel) :
                        views[j].sel[k] = r =>
                            ViewValue(heap, views[j]).flat[k] = X
           /\ \A n \in Names :
                (HasName(tab["POINT"], n) /\ ArrOf(tab["POINT"], n) = v1.VTKObject) =>
                    GetValue("POINT", n).flat[r] = X

\* C4's case: two arrays returned by separate get calls of the column are
\* held, 7 was written through the first and the column held 0 before.
C4_Witness ==
    /\ last.op = "setitem" /\ last.view = 1 /\ last.raw.flat[1] = 7
    /\ Len(views) = 2
    /\ views[1].cls = "VTKArray" /\ views[2].cls = "VTKArray"
    /\ views[1].VTKObject = views[2].VTKObject
    /\ HasName(tab["POINT"], "x") /\ ArrOf(tab["POINT"], "x") = views[1].VTKObject
    /\ \E k \in 1..NPoints : GetValue("POINT", "x").flat[k] = 0

\* C5 (modified propagation).  Every write through a held array (one that
\* get_array returned, a vtk_ndarray, or an array derived from them)
\* succeeds and lands in the buffer; it then marks the array's vtk array
\* modified, if it has one, and after that the dataset, if the array carries
\* a reference that still resolves to the dataset.  With the dataset
\* destroyed the write succeeds and only the vtk array is marked.
C5_ModifiedPropagation ==
    last.op = "setitem" =>
        LET w == views[last.view]
            marksArray == w.VTKObject # 0
            marksDataset == w.dataset = "WeakDS" /\ alive
        IN /\ last.outcome = "ok"
           /\ heap[w.buf].rows[w.sel[last.row]] = Const(heap[w.buf].ncomp, last.raw.flat[1])
           /\ Len(last.modlog) = (IF marksArray THEN 1 ELSE 0) + (IF marksDataset THEN 1 ELSE 0)
           /\ marksArray => last.modlog[1] = [obj |-> "array", id |-> w.VTKObject]
           /\ marksDataset => last.modlog[Len(last.modlog)] = [obj |-> "dataset", id |-> 0]

\* C6 (slice provenance).  An array derived from a held array has the
\* parent's vtk array, dataset reference and association exactly when it
\* shares memory with the parent (a non-empty slice does, a fancy-indexed
\* copy does not); otherwise it has none of them.  A write through an array
\* without provenance marks nothing modified; a write through one with a
\* vtk array marks that array.
C6_SliceProvenance ==
    /\ last.op \in {"slice", "fancy"} =>
        LET parent == views[last.view]
            child == views[Len(views)]
            shares == /\ child.buf = parent.buf
                      /\ \E k \in 1..Len(child.sel), j \in 1..Len(parent.sel) :
                            child.sel[k] = parent.sel[j]
        IN IF shares
           THEN /\ child.VTKObject = parent.VTKObject
                /\ child.dataset = parent.dataset
                /\ child.association = parent.association
           ELSE /\ child.VTKObject = 0
                /\ child.dataset = None
                /\ child.association = "NONE"
    /\ last.op = "setitem" =>
        LET w == views[last.view]
        IN /\ (w.VTKObject = 0 /\ w.dataset = None) => last.modlog = <<>>
           /\ w.VTKObject # 0 =>
                (last.modlog # <<>> /\ last.modlog[1] = [obj |-> "array", id |-> w.VTKObject])

\* C7 (active-role invariant).  On the point and cell tables every role is
\* unset or names a column the table holds, of 3 components for vectors and
\* normals and of 2 or 3 for texture coordinates.
C7_ActiveRoleInvariant ==
    \A s \in {"POINT", "CELL"}, k \in RoleKinds :
        roles[s][k] # None =>
            /\ HasName(tab[s], roles[s][k])
            /\ k \in {"vectors", "normals"} => heap[ArrOf(tab[s], roles[s][k])].ncomp = 3
            /\ k = "tcoords" => heap[ArrOf(tab[s], roles[s][k])].ncomp \in {2, 3}

\* C8 (role assignment is validated).  Assigning a role a name the table does
\* not hold raises KeyError; assigning the vectors role a column without
\* exactly 3 components raises ValueError; either way the role keeps the
\* name it had before the call.
C8_RoleAssignmentValidated ==
    (last.op = "setactive" /\ last.scope = "POINT" /\ last.name # None) =>
        /\ ~HasName(tab["POINT"], last.name) =>
                (last.outcome = "KeyError" /\ roles["POINT"][last.kind] = last.prior)
        /\ (/\ HasName(tab["POINT"], last.name)
            /\ last.kind = "vectors"
            /\ heap[ArrOf(tab["POINT"], last.name)].ncomp # 3) =>
                (last.outcome = "ValueError" /\ roles["POINT"][last.kind] = last.prior)

\* C8's case: the vectors role, registered to a column, was assigned a
\* column of another component count.
C8_Witness ==
    /\ last.op = "setactive" /\ last.kind = "vectors" /\ last.outcome = "ValueError"
    /\ last.prior # None /\ last.prior # last.name
    /\ roles["POINT"]["vectors"] = last.prior

\* C9 (assigning None deregisters).  Assigning None to a role's name leaves
\* that role unset, every other role as it was, and the table's columns and
\* their contents as they were.
C9_NoneDeregisters ==
    [][(last'.op = "setactive" /\ last'.scope = "POINT" /\ last'.name = None) =>
            /\ last'.outcome = "ok"
            /\ roles'["POINT"][last'.kind] = None
            /\ \A k \in RoleKinds \ {last'.kind} : roles'["POINT"][k] = roles["POINT"][k]
            /\ tab' = tab
            /\ heap' = heap
      ]_vars

\* C9's case: None was assigned to a role registered to a column while
\* another role is registered too; the column is still in the table.
C9_Witness ==
    /\ last.op = "setactive" /\ last.scope = "POINT" /\ last.name = None
    /\ last.prior # None
    /\ HasName(tab["POINT"], last.prior)
    /\ roles["POINT"][last.kind] = None
    /\ \E k \in RoleKinds : roles["POINT"][k] # None

\* C10 (a field table has no roles).  Reading or assigning a role on the
\* field table raises AttributeError or TypeError, whatever columns the
\* table holds, and registers nothing.
C10_FieldHasNoRoles ==
    /\ (last.scope = "FIELD" /\ last.op \in {"getactive", "setactive"}) =>
            last.outcome \in {"AttributeError", "TypeError"}
    /\ roles["FIELD"] = NoRoles

\* C10's case: a role was read on a field table that holds a column.
C10_Witness ==
    /\ last.op = "getactive" /\ last.scope = "FIELD"
    /\ HasName(tab["FIELD"], "x")
    /\ last.outcome \in {"AttributeError", "TypeError"}
\* C11 (failed removal).  remove, del and pop without a default raise
\* KeyError for a string the point table does not hold, the empty string
\* included, and TypeError for a key that is not a string; the failed call
\* leaves the table's names, columns and roles as they were.
C11_FailedRemoval ==
    [][(last'.op \in {"remove", "pop"} /\ last'.scope = "POINT"
            /\ ~HasName(tab["POINT"], last'.name)) =>
            /\ last'.outcome = IF last'.name \in NonStringKeys THEN "TypeError" ELSE "KeyError"
            /\ tab' = tab
            /\ heap' = heap
            /\ roles' = roles
      ]_vars

\* C11's case: pop of an integer key raised TypeError on a table that holds
\* two columns, one of them the active scalars.
C11_Witness ==
    /\ last.op = "pop" /\ last.name = "int(-1)" /\ last.outcome = "TypeError"
    /\ Len(tab["POINT"]) = Cardinality(Names)
    /\ roles["POINT"]["scalars"] # None

\* C12 (pop).  A one-dimensional numeric, boolean or string array set under
\* a name of the point table is stored as a column equal to it element by
\* element; pop(name) for a name of the table returns the value of the
\* column the table held and the name is no longer in the table;
\* pop(name, default) for an absent name returns the default and leaves the
\* table as it was.
C12_Pop ==
    [][/\ (last'.op = "set" /\ last'.dtype \notin ComplexTypes) =>
            /\ last'.outcome = "ok"
            /\ HasName(tab'["POINT"], last'.name)
            /\ heap'[ArrOf(tab'["POINT"], last'.name)].rows =
                    [i \in 1..NPoints |-> <<last'.raw.flat[i]>>]
       /\ (last'.op = "pop" /\ last'.outcome = "ok") =>
            /\ HasName(tab["POINT"], last'.name)
            /\ last'.ret.shape = <<NPoints>>
            /\ last'.ret.flat =
                    [i \in 1..NPoints |-> heap[ArrOf(tab["POINT"], last'.name)].rows[i][1]]
            /\ ~HasName(tab'["POINT"], last'.name)
       /\ (last'.op = "popdefault") =>
            /\ ~HasName(tab["POINT"], last'.name)
            /\ last'.outcome = "default"
            /\ tab' = tab /\ heap' = heap /\ annot' = annot
       /\ (last'.op \in {"pop", "popdefault"} /\ HasName(tab["POINT"], last'.name)) =>
            last'.op = "pop" /\ last'.outcome = "ok"
      ]_vars

\* The number of names the point table contains.
Contained == Cardinality({n \in Names : HasName(tab["POINT"], n)})

\* C13 (length).  len(table) is the number of names the point table
\* contains: a set of a new name adds one, a remove or pop of a name of the
\* table takes one away, clear() makes it 0.
C13_Length ==
    [][/\ TableLen(tab["POINT"]) = Contained
       /\ last'.op = "len" => last'.n = Contained
       /\ (last'.op = "set" /\ last'.outcome = "ok") =>
            TableLen(tab'["POINT"]) =
                TableLen(tab["POINT"]) + (IF HasName(tab["POINT"], last'.name) THEN 0 ELSE 1)
       /\ (last'.op \in {"remove", "pop"} /\ last'.outcome = "ok") =>
            TableLen(tab'["POINT"]) = TableLen(tab["POINT"]) - 1
       /\ last'.op = "clear" => TableLen(tab'["POINT"]) = 0
      ]_vars

\* C13's case: len() answered the number of names after an overwrite: the
\* table holds every name, and two columns of different values.
C13_Witness ==
    /\ last.op = "len" /\ last.n = Cardinality(Names)
    /\ GetValue("POINT", "x") # GetValue("POINT", "y")

\* C14 (keys and values).  keys() lists the point table's names in the order
\* of their first insertion: a new name goes to the end, an overwrite keeps
\* the order, a removal deletes the name and keeps the others' order;
\* values() has one entry per key, the i-th being the value of the column
\* the i-th key names.
C14_KeysValuesOrder ==
    [][/\ (last'.op = "set" /\ last'.outcome = "ok") =>
            Keys(tab'["POINT"]) =
                IF HasName(tab["POINT"], last'.name) THEN Keys(tab["POINT"])
                ELSE Append(Keys(tab["POINT"]), last'.name)
       /\ (last'.op \in {"remove", "pop"} /\ last'.outcome = "ok") =>
            Keys(tab'["POINT"]) = SelectSeq(Keys(tab["POINT"]), LAMBDA k : k # last'.name)
       /\ last'.op = "keys" => last'.list = Keys(tab["POINT"])
       /\ last'.op = "values" =>
            /\ Len(last'.list) = Len(Keys(tab["POINT"]))
            /\ \A i \in 1..Len(last'.list) :
                    last'.list[i] = GetValue("POINT", Keys(tab["POINT"])[i])
      ]_vars

\* C14's case: values() listed two columns of different values.
C14_Witness ==
    /\ last.op = "values"
    /\ Len(last.list) = Cardinality(Names)
    /\ last.list[1] # last.list[2]

\* C15 (get).  get(name) returns None and get(name, default) returns the
\* default for a name the point table does not hold, the column's value for
\* a name it holds; the call changes neither names, columns nor roles.
C15_Get ==
    [][last'.op \in {"dictget", "dictgetdefault"} =>
            /\ last'.outcome =
                IF HasName(tab["POINT"], last'.name) THEN "ok"
                ELSE IF last'.op = "dictget" THEN "None" ELSE "default"
            /\ HasName(tab["POINT"], last'.name) =>
                    last'.ret = GetValue("POINT", last'.name)
            /\ tab' = tab /\ heap' = heap /\ roles' = roles
      ]_vars

\* C15's case: get(name, default) answered the default while the table holds
\* another column.
C15_Witness ==
    /\ last.op = "dictgetdefault" /\ last.outcome = "default"
    /\ tab["POINT"] # <<>>
    /\ ~HasName(tab["POINT"], last.name)

\* C16 (get_array of an absent key).  get_array(key) on the point table
\* raises KeyError for a name the table does not hold and for the index -1.
C16_GetArrayKeyError ==
    /\ (last.op = "get" /\ last.outcome # "ok") => last.outcome = "KeyError"
    /\ (last.op = "getat" /\ last.n = -1) => last.outcome = "KeyError"

\* C17 (boolean fidelity).  A boolean array set under a name of the point
\* table is stored and the name is flagged bool; a read of a name reports
\* the element type bool exactly when the last array set under it was
\* boolean.
C17_BooleanFidelity ==
    /\ (last.op = "set" /\ last.dtype = "bool") =>
            /\ last.outcome = "ok"
            /\ last.name \in annot["bool"]
    /\ (last.op = "set" /\ last.outcome = "ok" /\ last.dtype # "bool") =>
            last.name \notin annot["bool"]
    /\ (last.op = "get" /\ last.outcome = "ok" /\ last.dtype = "bool") =>
            last.name \in annot["bool"]

\* C18 (complex fidelity).  A one-dimensional complex64 or complex128 array
\* set under a name of the point table is stored and the name is flagged
\* complex; a complex array of two dimensions raises ValueError and stores
\* nothing; a real array set under the name takes the flag away.
C18_ComplexFidelity ==
    /\ (last.op = "set" /\ last.dtype \in ComplexTypes) =>
            IF Len(last.raw.shape) = 1
            THEN last.outcome = "ok" /\ last.name \in annot["complex"]
            ELSE last.outcome = "ValueError"
    /\ (last.op = "set" /\ last.outcome = "ok" /\ last.dtype \notin ComplexTypes) =>
            last.name \notin annot["complex"]

\* The point table and the point table of a copy hold the same names, hold
\* element-wise equal columns under each, register the same name for every
\* role.
SameNames(k) ==
    \A n \in Names : HasName(tab["POINT"], n) <=> HasName(copies[k].cols, n)
SameColumns(k) ==
    \A n \in Names :
        (HasName(tab["POINT"], n) /\ HasName(copies[k].cols, n)) =>
            heap[ArrOf(tab["POINT"], n)].rows = heap[ArrOf(copies[k].cols, n)].rows
SameRoles(k) ==
    \A r \in RoleKinds : roles["POINT"][r] = copies[k].roles[r]

\* C19 (table equality).  The point table equals another table exactly when
\* both hold the same names, element-wise equal columns under each name and
\* the same registered name for every role; it never equals an object that
\* is not a table; a change of the active scalars name alone ends equality.
C19_TableEquality ==
    [][/\ last'.op = "eq" =>
            (last'.outcome = "equal" <=>
                /\ last'.kind \in CopyKinds
                /\ SameNames(last'.kind) /\ SameColumns(last'.kind) /\ SameRoles(last'.kind))
       /\ (last'.op = "setactive" /\ roles' # roles) =>
            \A k \in CopyKinds : TableEquals(k) => ~TableEquals(k)'
      ]_vars

\* C19's case: the table was compared with the deep copy's, which holds the
\* same two names and equal columns, and differs in the active scalars name
\* only.
C19_Witness ==
    /\ last.op = "eq" /\ last.kind = "deep" /\ last.outcome = "unequal"
    /\ Len(tab["POINT"]) = Cardinality(Names)
    /\ SameNames("deep") /\ SameColumns("deep")
    /\ roles["POINT"]["scalars"] # copies["deep"].roles["scalars"]

\* The copy's point table holds none of the arrays of the original's.
OwnArrays(k) ==
    \A i \in 1..Len(tab["POINT"]), j \in 1..Len(copies[k].cols) :
        tab["POINT"][i].arr # copies[k].cols[j].arr

\* C20 (copies under in-place mutation).  Right after copy(deep=True) and
\* copy(deep=False) the copy's point table equals the original's, the deep
\* copy holding arrays of its own and the shallow copy the original's; a
\* write into a column of the original that changes it ends the equality
\* with a deep copy that still holds its own arrays and keeps the equality
\* with a shallow copy of the same columns.
C20_CopySemantics ==
    [][/\ \A k \in CopyKinds :
            (last'.op = "copy" /\ last'.kind = k) =>
                /\ TableEquals(k)'
                /\ IF k = "deep" THEN OwnArrays(k)' ELSE copies'[k].cols = tab'["POINT"]
       /\ (last'.op = "write" /\ heap' # heap) =>
            /\ (TableEquals("deep") /\ OwnArrays("deep")) => ~TableEquals("deep")'
            /\ (TableEquals("shallow") /\ copies["shallow"].cols = tab["POINT"]) =>
                    TableEquals("shallow")'
      ]_vars

\* C20's case: after a write into the original's column the deep copy is
\* unequal and the shallow copy, which holds the same columns, is equal.
C20_Witness ==
    /\ last.op = "write"
    /\ copies["deep"].made /\ copies["shallow"].made
    /\ SameNames("deep") /\ SameRoles("deep") /\ OwnArrays("deep") /\ ~TableEquals("deep")
    /\ copies["shallow"].cols = tab["POINT"] /\ TableEquals("shallow")

\* C21 (single-column operations are atomic).  A set, remove or pop on the
\* point table either succeeds, and then the name is in the table after a
\* set and out of it after a remove or pop, or raises and leaves names,
\* columns, flags and roles exactly as they were.
C21_Atomic ==
    [][(last'.op \in {"set", "remove", "pop"} /\ last'.scope = "POINT") =>
            IF last'.outcome = "ok"
            THEN HasName(tab'["POINT"], last'.name) <=> last'.op = "set"
            ELSE tab' = tab /\ heap' = heap /\ annot' = annot /\ roles' = roles
      ]_vars

\* C21's case: a set raised on a table that holds a column and a role.
C21_Witness ==
    /\ last.op = "set" /\ last.outcome = "TypeError" /\ last.name \in Names
    /\ tab["POINT"] # <<>>
    /\ roles["POINT"]["scalars"] # None

\* C22 (set_array rejects bad arguments).  set_array with None as the data
\* raises TypeError; set_array with a name that is a list raises the
\* TypeError whose message says that name must be a string; neither call
\* changes the table's names.
C22_RejectsBadArguments ==
    /\ (last.op = "set" /\ last.raw = PyNone) => last.outcome = "TypeError"
    /\ (last.op = "set" /\ last.name = ListName) =>
            last.outcome = "TypeError" /\ last.msg = NameMustBeString


\* The names of the blocks' tables, block after block.
RECURSIVE Traversal(_, _)
Traversal(blocks, b) ==
    IF b > Len(blocks) THEN <<>> ELSE Keys(blocks[b]) \o Traversal(blocks, b + 1)

FirstAt(seq, x) == CHOOSE i \in 1..Len(seq) : seq[i] = x /\ \A j \in 1..(i - 1) : seq[j] # x

\* keys is the union of the names in seq, each once, in the order of their
\* first occurrence in seq.
FirstOccurrenceOrder(keys, seq) ==
    /\ \A i, j \in 1..Len(keys) : i # j => keys[i] # keys[j]
    /\ \A n \in Names : InSeq(n, keys) <=> InSeq(n, seq)
    /\ \A i, j \in 1..Len(keys) : i < j => FirstAt(seq, keys[i]) < FirstAt(seq, keys[j])

\* C23: the keys of the composite union are the names of the blocks'
\* tables, each once, in the order in which the traversal of the blocks
\* first meets them; they are determined when the union is constructed, and
\* adding a column to a block or removing one directly afterwards leaves
\* them as they were.
C23_UnionKeys ==
    [][/\ last'.op = "construct" =>
            FirstOccurrenceOrder(KnownKeys', Traversal(union.DataSet, 1))
       /\ (union.built /\ last'.op \in {"blockset", "blockremove"}) =>
            KnownKeys' = KnownKeys
       /\ last'.op = "unionkeys" => last'.list = KnownKeys
      ]_vars

C23_Witness ==
    /\ union.built
    /\ last.op = "unionkeys" /\ last.list = <<"y", "x">>
    /\ HasName(union.DataSet[1], "x") /\ ~HasName(union.DataSet[1], "y")


\* C24: get(name) on the composite union returns the no-array sentinel,
\* without raising and without making a cache entry, when the name is not
\* among the known keys; otherwise it returns a composite array, which has
\* one slot per block: the block's column, or the placeholder for a block
\* that lacks the column.
C24_UnionGet ==
    [][/\ (last'.op = "unionget" /\ ~InSeq(last'.name, KnownKeys)) =>
            /\ last'.outcome = "NoneArray"
            /\ union' = union
       /\ (last'.op = "unionget" /\ InSeq(last'.name, KnownKeys)) =>
            /\ last'.outcome = "ok"
            /\ last'.view \in 1..MaxHeld
       /\ last'.op = "arrays" =>
            /\ Len(last'.list) = NBlocks
            /\ \A b \in 1..NBlocks : last'.list[b].kind \in {"VTKArray", "NoneArray"}
            /\ last'.kind = "new" =>
                 \A b \in 1..NBlocks :
                    IF HasName(union.DataSet[b], last'.name)
                    THEN /\ last'.list[b].kind = "VTKArray"
                         /\ last'.list[b].rows =
                                union.DataSet[b][IndexOf(union.DataSet[b], last'.name)].rows
                    ELSE last'.list[b] = NoneArraySlot
      ]_vars

C24_Witness ==
    /\ last.op = "arrays" /\ last.kind = "new"
    /\ \E b \in 1..NBlocks : last.list[b].kind = "VTKArray"
    /\ \E b \in 1..NBlocks : last.list[b] = NoneArraySlot


\* C25: while the caller holds the composite array a get(name) returned,
\* the next get(name) returns that same object and changes nothing; once
\* the array is collected the cache entry is dead, and the next get(name)
\* makes a new array and caches it by a reference that does not keep it
\* alive.
C25_CacheIdentity ==
    [][/\ (last'.op = "unionget" /\ last'.outcome = "ok" /\ Cached(last'.name)) =>
            /\ last'.view = union.Arrays[last'.name].ref
            /\ union.held[last'.view].live
            /\ union' = union
       /\ (last'.op = "unionget" /\ last'.outcome = "ok" /\ ~Cached(last'.name)) =>
            /\ ~union.held[last'.view].live
            /\ union'.Arrays[last'.name] =
                    IF union'.held[last'.view].live THEN Entry(last'.view) ELSE Entry(0)
       /\ last'.op = "release" =>
            /\ ~union'.held[last'.view].live
            /\ \A n \in Names : union.Arrays[n].ref = last'.view => ~Cached(n)'
      ]_vars

\* the array was collected and get(name) made a new one, which is cached
C25_Witness ==
    /\ last.op = "unionget" /\ last.kind = "new"
    /\ Cached(last.name) /\ union.Arrays[last.name].ref = last.view
    /\ \E n \in Names : n # last.name /\ union.Arrays[n] = Entry(0)


\* C26: set(name, value) on the composite union with a value that is not a
\* composite array assigns the value into the table of every block; with a
\* composite array it assigns each sub-array to its block and skips the
\* missing ones; the name is appended to the known keys exactly when some
\* block accepted a value, and then the name is among the keys and every
\* block that was given a value contains the name.
C26_UnionSet ==
    [][/\ (last'.op = "unionset" /\ last'.kind = "plain" /\ last'.raw # NoneArray) =>
            /\ last'.outcome = "ok"
            /\ \A b \in 1..NBlocks : HasName(union'.DataSet[b], last'.name)
            /\ InSeq(last'.name, KnownKeys')
       /\ (last'.op = "unionset" /\ last'.kind = "composite") =>
            /\ \A b \in 1..NBlocks :
                  IF last'.list[b].kind = "VTKArray"
                  THEN BlockArray(union'.DataSet[b], last'.name) = last'.list[b]
                  ELSE union'.DataSet[b] = union.DataSet[b]
            /\ IF \E b \in 1..NBlocks : last'.list[b].kind = "VTKArray"
               THEN KnownKeys' = Append(KnownKeys, last'.name)
               ELSE KnownKeys' = KnownKeys
      ]_vars


\* C28: set(name, NoneArray) does nothing, on a block's attribute table and
\* on the composite union alike: no column, no known key and no cache entry
\* changes, whether or not the name exists.
C28_NoneArrayNoOp ==
    [][(last'.op \in {"blockset", "unionset"} /\ last'.raw = NoneArray) =>
            /\ last'.outcome = "noop"
            /\ union' = union
      ]_vars

\* the no-op happened on a union that knows the name and has it cached
C28_Witness ==
    /\ last.op = "unionset" /\ last.raw = NoneArray
    /\ InSeq(last.name, KnownKeys) /\ Cached(last.name)
    /\ \E b \in 1..NBlocks : HasName(union.DataSet[b], last.name)


\* C29: when set on the composite union is given a composite array and a
\* sub-array is assigned, the cache entry of the name becomes a weak
\* reference to the supplied array itself, so that a get(name) while the
\* caller still holds it returns that same object; a set with a value that
\* is not a composite array leaves the cache as it was.
C29_SetCaches ==
    [][/\ (/\ last'.op = "unionset" /\ last'.kind = "composite"
           /\ \E b \in 1..NBlocks : last'.list[b].kind = "VTKArray") =>
            IF union'.held[last'.view].live
            THEN /\ union'.Arrays[last'.name] = Entry(last'.view)
                 /\ union'.held[last'.view].Arrays = last'.list
            ELSE union'.Arrays[last'.name] = Entry(0)
       /\ (last'.op = "unionget" /\ Cached(last'.name)) =>
            /\ last'.outcome = "ok"
            /\ last'.view = union.Arrays[last'.name].ref
            /\ union' = union
       /\ (last'.op = "unionset" /\ last'.kind = "plain") =>
            union'.Arrays = union.Arrays
      ]_vars

\* get(name) returned the composite array the caller had supplied
C29_Witness ==
    /\ last.op = "unionget" /\ last.kind = "cached"
    /\ union.held[last.view].live
    /\ union.held[last.view].Name = None
    /\ \E b \in 1..NBlocks : union.held[last.view].Arrays[b].kind = "VTKArray"


\* The override call on T that came last before event i, or 0.
LastOverrideBefore(events, T, i) ==
    IF \E j \in 1..(i - 1) : events[j].op = "override" /\ events[j].T = T
    THEN CHOOSE j \in 1..(i - 1) :
            /\ events[j].op = "override" /\ events[j].T = T
            /\ \A k \in (j + 1)..(i - 1) : ~(events[k].op = "override" /\ events[k].T = T)
    ELSE 0

\* C27: once override(T, Foo) has been called, in the call form or as a
\* decorator, the instances of the native type T created afterwards are
\* instances of Foo; the instances created after override(T, None), and
\* those created before any override was installed, are not.
C27_Override ==
    \A i \in 1..Len(registry.events) :
        LET e == registry.events[i]
            j == LastOverrideBefore(registry.events, e.T, i)
        IN (e.op = "new" /\ HasOverride(e.T)) =>
              \A Foo \in Subclasses :
                  (e.cls = Foo) <=> (j # 0 /\ registry.events[j].cls = Foo)

\* an instance of Foo, then the override reverted, then a plain instance
C27_Witness ==
    \E i, j, k \in 1..Len(registry.events) :
        /\ i < j /\ j < k
        /\ registry.events[i] = [op |-> "new", T |-> "vtkPolyData", cls |-> "Foo"]
        /\ registry.events[j] = [op |-> "override", T |-> "vtkPolyData", cls |-> None]
        /\ registry.events[k] = [op |-> "new", T |-> "vtkPolyData", cls |-> "vtkPolyData"]


CoordinateLengths(g) == <<Len(g.x), Len(g.y), Len(g.z)>>

\* C30: a rectilinear grid constructed with at least one coordinate array
\* has, then and after every assignment of x, y or z, the dimensions
\* (len(x), len(y), len(z)); assigning dimensions or points raises
\* AttributeError and changes nothing.
C30_Dimensions ==
    /\ [](grid.made /\ grid.given => grid.dimensions = CoordinateLengths(grid))
    /\ [][/\ (last'.op = "setcoords" /\ last'.outcome = "ok") =>
                /\ grid'.dimensions = CoordinateLengths(grid')
                /\ Len(last'.list) \in {grid'.dimensions[1], grid'.dimensions[2],
                                       grid'.dimensions[3]}
          /\ last'.op \in {"setdimensions", "setpoints"} =>
                /\ last'.outcome = "AttributeError"
                /\ grid' = grid
         ]_vars

\* constructed with arrays, then a coordinate array of another length assigned
C30_Witness ==
    /\ grid.made /\ grid.given
    /\ last.op = "setcoords" /\ last.outcome = "ok" /\ last.name = "y"
    /\ grid.dimensions = <<2, 1, 2>>

====
